---- MODULE Spec2Model ----
(***************************************************************************)
(* Verification model of incipyt's template-resolution and configuration-  *)
(* merge engine.                                                           *)
(*                                                                         *)
(*  - td      : backing dict of a TemplateDict (incipyt/_internal/          *)
(*              templates.py), with MultiStringTemplate conflict merging.  *)
(*  - ud      : backing dict of the TemplateDict of incipyt/_internal/      *)
(*              utils.py, with MultipleValues.                             *)
(*  - env...  : the _Environment of incipyt/project/environment.py: the    *)
(*              resolved values (data) and the eight sources.              *)
(*  - environ...: the _Environ of incipyt/project.py (data and _confirmed) *)
(*              with StringTemplate.format rendering from it.              *)
(*  - heap ...: the _Structure of incipyt/project/structure.py: the        *)
(*              registered containers, the proxies handed out, commit.     *)
(*  - metadata, catalog: the two registries of variables,                  *)
(*              incipyt/variables.py and project/meta_variables.py.        *)
(*                                                                         *)
(* Python values are modelled as tagged records:                           *)
(*   [t |-> "str",  v]                          a str                      *)
(*   [t |-> "st",   pat, san, conf, verr, kw]   a StringTemplate           *)
(*   [t |-> "mst",  vals]                       a MultiStringTemplate      *)
(*   [t |-> "dict", m]                          a stored dict              *)
(*   [t |-> "list", l]                          a list                     *)
(*   [t |-> "mapping", items]                   a dict given as argument   *)
(*                                              (items in insertion order) *)
(*   [t |-> "tr",   v, f]                       a Transform(value, f)      *)
(* An operation returns [d |-> structure afterwards, e |-> "ok" or the     *)
(* name of the exception raised]; d keeps every mutation made before the   *)
(* exception.                                                              *)
(***************************************************************************)
EXTENDS Integers, Sequences, FiniteSets, TLC

VARIABLES td, tdLast, written, nWrites,
          ud, udLast, nUWrites,
          envData, envSources, envLast, nFeeds, nGets,
          environData, environConfirmed, environResolved, environLast, nEnvironOps,
          heap, configurations, proxies, dumped, stLast, nStructOps,
          metadata, catalog, catLast, nRegs

tdVars == <<td, tdLast, written, nWrites>>

udVars == <<ud, udLast, nUWrites>>

envVars == <<envData, envSources, envLast, nFeeds, nGets>>

environVars ==
    <<environData, environConfirmed, environResolved, environLast, nEnvironOps>>

structVars == <<heap, configurations, proxies, dumped, stLast, nStructOps>>

catVars == <<metadata, catalog, catLast, nRegs>>

vars == <<tdVars, udVars, envVars, environVars, structVars, catVars>>

----------------------------------------------------------------------------
(* Bounds *)

MaxWrites == 2
MaxPath == 2
MaxFeeds == 2
MaxGets == 2
MaxEnvironOps == 3
MaxStructOps == 5
MaxRegs == 2

Keys == {"a", "b"}

----------------------------------------------------------------------------
(* Python values *)

Str(s) == [t |-> "str", v |-> s]

NoKwargs == <<>>

StringTemplate(pat, confirmed, sanitizer, value_error, kwargs) ==
    [t |-> "st", pat |-> pat, san |-> sanitizer, conf |-> confirmed,
     verr |-> value_error, kw |-> kwargs]

Transform(value, transform) == [t |-> "tr", v |-> value, f |-> transform]

Dict(m) == [t |-> "dict", m |-> m]

List(l) == [t |-> "list", l |-> l]

Mapping(items) == [t |-> "mapping", items |-> items]

EmptyDict == Dict(<<>>)

Ok(d) == [d |-> d, e |-> "ok"]

Raise(d, exc) == [d |-> d, e |-> exc]

is_nonstring_sequence(obj) == obj.t = "list"

IsMapping(obj) == obj.t \in {"dict", "mapping"}

formattable(obj) == obj.t \in {"st", "mst", "str"}

(* attrs_hash / hash(): a StringTemplate built around a list or a dict is  *)
(* unhashable, every other scalar is hashable.                             *)
Hashable(obj) ==
    CASE obj.t = "st" -> obj.pat.t = "str"
      [] obj.t \in {"list", "dict", "mapping"} -> FALSE
      [] OTHER -> TRUE

(* The callables used as the transform of a Transform. *)
ApplyTransform(f, value) ==
    CASE f = "StringTemplate" -> StringTemplate(value, FALSE, "None", TRUE, NoKwargs)
      [] f = "identity" -> value

_get_transform(value, transform) ==
    IF value.t = "tr" THEN value ELSE Transform(value, transform)

RECURSIVE _get_value(_, _)
_get_value(value, transform) ==
    IF value.t = "tr" THEN _get_value(value.v, value.f)
    ELSE IF formattable(value) /\ value.t # "str" THEN value
    ELSE ApplyTransform(transform, value)

----------------------------------------------------------------------------
(* MultiStringTemplate *)

(* a MultiStringTemplate that forgets what the key held *)
MultiStringTemplate_overwrite(head, tail) ==
    LET h == _get_transform(head, "StringTemplate")
    IN  Ok([t |-> "mst", vals |-> {_get_value(h.v, h.f)}])

(* MultiStringTemplate.__init__: _values is a Python set, so building it   *)
(* hashes every candidate.                                                 *)
MultiStringTemplate(head, tail) ==
    LET h == _get_transform(head, "StringTemplate")
        t == _get_transform(tail, "StringTemplate")
        values == IF tail.t = "mst"
                  THEN {_get_value(h.v, h.f)} \cup tail.vals
                  ELSE {_get_value(h.v, h.f), _get_value(t.v, t.f)}
    IN  IF \A c \in values : Hashable(c)
        THEN Ok([t |-> "mst", vals |-> values])
        ELSE Raise(tail, "TypeError")

----------------------------------------------------------------------------
(* TemplateDict / TemplateList of templates.py *)

Put(m, k, x) == [i \in DOMAIN m \cup {k} |-> IF i = k THEN x ELSE m[i]]

(* the element of a singleton: Only({e(r) : r \in {x}}) is e(x), with x    *)
(* computed once                                                           *)
Only(S) == CHOOSE x \in S : TRUE

(* list.insert(index, x), index counted from 0 *)
ListInsertAt(l, index, x) ==
    SubSeq(l, 1, index) \o <<x>> \o SubSeq(l, index + 1, Len(l))

(* `a in b` for two str: the strings of the model are single tokens, none  *)
(* of which is a proper substring of another.                              *)
StrContains(b, a) == a = b

RECURSIVE TD_setkey(_, _, _)
RECURSIVE TD_setitems(_, _, _, _)
RECURSIVE TL_insert(_, _, _)
RECURSIVE TL_extend_from(_, _, _, _)

(* TemplateList.extend: append every element with the list's transform *)
TL_extend(data, other) ==
    LET tr == _get_transform(other, "StringTemplate")
    IN  TL_extend_from(data, tr.v.l, tr.f, 1)

(* MutableSequence.append(value) is insert(len(self), value) *)
TL_append(data, value) ==
    CASE data.t = "list" -> TL_insert(data, Len(data.l), value)
      [] data.t = "str" -> TL_insert(data, 1, value)
      [] OTHER -> Raise(data, "TypeError")

TL_extend_from(data, l, transform, i) ==
    IF i > Len(l) THEN Ok(data)
    ELSE LET r == TL_append(data, _get_transform(l[i], transform))
         IN  IF r.e # "ok" THEN r ELSE TL_extend_from(r.d, l, transform, i + 1)

(* an update that wraps every value with the default constructor *)
TD_update_default(data, other) ==
    LET tr == _get_transform(other, "StringTemplate")
    IN  TD_setitems(data, tr.v.items, "StringTemplate", 1)

(* TemplateDict.update(other) with a mapping: self[key] = other[key] for   *)
(* every key, under the mapping's transform.                               *)
TD_update(data, other) ==
    LET tr == _get_transform(other, "StringTemplate")
    IN  TD_setitems(data, tr.v.items, tr.f, 1)

(* TemplateList.insert *)
TL_insert(data, index, value) ==
    LET tr == _get_transform(value, "StringTemplate")
    IN  IF is_nonstring_sequence(tr.v) THEN
            IF data.t # "list" THEN Raise(data, "AttributeError")
            ELSE LET r == TL_extend(List(<<>>), Transform(tr.v, tr.f))
                 IN  [d |-> List(ListInsertAt(data.l, index, r.d)), e |-> r.e]
        ELSE IF IsMapping(tr.v) THEN
            IF data.t # "list" THEN Raise(data, "AttributeError")
            ELSE LET r == TD_update(EmptyDict, Transform(tr.v, tr.f))
                 IN  [d |-> List(ListInsertAt(data.l, index, r.d)), e |-> r.e]
        ELSE
            LET new_value == _get_value(tr.v, tr.f)
            IN  CASE data.t = "list" ->
                       IF \E j \in 1..Len(data.l) : data.l[j] = new_value
                       THEN Ok(data)
                       ELSE Ok(List(ListInsertAt(data.l, index, new_value)))
                  [] data.t = "str" ->
                       IF new_value.t # "str" THEN Raise(data, "TypeError")
                       ELSE IF StrContains(data.v, new_value.v) THEN Ok(data)
                       ELSE Raise(data, "AttributeError")
                  [] OTHER -> Raise(data, "TypeError")

(* the loop `for key, value in value.items(): TemplateDict(data)[key] = ...` *)
TD_setitems(data, items, transform, i) ==
    IF i > Len(items) THEN Ok(data)
    ELSE LET r == TD_setkey(data, items[i].k, _get_transform(items[i].v, transform))
         IN  IF r.e # "ok" THEN r ELSE TD_setitems(r.d, items, transform, i + 1)

(* TemplateDict(data)[keys] = value for a key that is not a sequence *)
TD_setkey(data, keys, value) ==
    LET tr == _get_transform(value, "StringTemplate")
    IN  IF data.t # "dict" THEN
            (* `keys in self.data`, or the item assignment after it, fails *)
            (* on a StringTemplate, a MultiStringTemplate or a str         *)
            Raise(data, "TypeError")
        ELSE IF IsMapping(tr.v) THEN
            LET d1 == IF keys \in DOMAIN data.m THEN data
                      ELSE Dict(Put(data.m, keys, EmptyDict))
            IN  IF is_nonstring_sequence(d1.m[keys]) THEN Raise(d1, "AssertionError")
                ELSE LET r == TD_setitems(d1.m[keys], tr.v.items, tr.f, 1)
                     IN  [d |-> Dict(Put(d1.m, keys, r.d)), e |-> r.e]
        ELSE IF is_nonstring_sequence(tr.v) THEN
            LET d1 == IF keys \in DOMAIN data.m THEN data
                      ELSE Dict(Put(data.m, keys, List(<<>>)))
            IN  IF IsMapping(d1.m[keys]) THEN Raise(d1, "AssertionError")
                ELSE LET r == TL_extend(d1.m[keys], Transform(tr.v, tr.f))
                     IN  [d |-> Dict(Put(d1.m, keys, r.d)), e |-> r.e]
        ELSE
            IF keys \in DOMAIN data.m THEN
                LET r == MultiStringTemplate(Transform(tr.v, tr.f), data.m[keys])
                IN  IF r.e # "ok" THEN Raise(data, r.e)
                    ELSE Ok(Dict(Put(data.m, keys, r.d)))
            ELSE Ok(Dict(Put(data.m, keys, _get_value(tr.v, tr.f))))

(* the loop over keys[:-1] of TemplateDict.__setitem__: create every       *)
(* missing intermediate dict                                               *)
RECURSIVE TD_create_path(_, _)
TD_create_path(config, ks) ==
    IF ks = <<>> THEN Ok(config)
    ELSE IF config.t # "dict" THEN Raise(config, "TypeError")
    ELSE LET c1 == IF Head(ks) \in DOMAIN config.m THEN config
                   ELSE Dict(Put(config.m, Head(ks), EmptyDict))
             r == TD_create_path(c1.m[Head(ks)], Tail(ks))
         IN  [d |-> Dict(Put(c1.m, Head(ks), r.d)), e |-> r.e]

(* TemplateDict.__getitem__(keys): the object at the end of an existing    *)
(* path (the proxy wraps it by reference)                                  *)
RECURSIVE TD_getitem(_, _)
TD_getitem(config, ks) ==
    IF ks = <<>> THEN config ELSE TD_getitem(config.m[Head(ks)], Tail(ks))

(* the effect, on the root, of a mutation of the object at the end of ks *)
RECURSIVE ReplaceAt(_, _, _)
ReplaceAt(config, ks, new) ==
    IF ks = <<>> THEN new
    ELSE Dict(Put(config.m, Head(ks), ReplaceAt(config.m[Head(ks)], Tail(ks), new)))

(* proxy[key] = value on what __getitem__ returned: a TemplateDict, a     *)
(* TemplateList (no __setitem__) or the bare value                         *)
ProxySetItem(node, key, value) ==
    CASE node.t = "dict" -> TD_setkey(node, key, value)
      [] node.t = "list" -> Raise(node, "NotImplementedError")
      [] OTHER -> Raise(node, "TypeError")

(* a __setitem__ that assigns under the first key of the tuple instead of *)
(* the last one                                                            *)
TD_setitem_firstkey(data, keys, value) ==
    IF keys.tuple THEN
        LET prefix == SubSeq(keys.ks, 1, Len(keys.ks) - 1)
            c == TD_create_path(data, prefix)
        IN  IF c.e # "ok" THEN c
            ELSE LET r == ProxySetItem(TD_getitem(c.d, prefix), keys.ks[1], value)
                 IN  [d |-> ReplaceAt(c.d, prefix, r.d), e |-> r.e]
    ELSE TD_setkey(data, keys.ks[1], value)

(* TemplateDict.__setitem__(keys, value); keys = [tuple, ks]: a tuple of  *)
(* keys ks, or the single key ks[1]                                        *)
TD_setitem(data, keys, value) ==
    IF keys.tuple THEN
        LET prefix == SubSeq(keys.ks, 1, Len(keys.ks) - 1)
            c == TD_create_path(data, prefix)
        IN  IF c.e # "ok" THEN c
            ELSE LET r == ProxySetItem(TD_getitem(c.d, prefix), keys.ks[Len(keys.ks)], value)
                 IN  [d |-> ReplaceAt(c.d, prefix, r.d), e |-> r.e]
    ELSE TD_setkey(data, keys.ks[1], value)

----------------------------------------------------------------------------
(* Arguments of the operations *)

(* key arguments: a single key, or a tuple of 1..MaxPath keys *)
RECURSIVE Tuples(_)
Tuples(n) ==
    IF n = 0 THEN {<<>>}
    ELSE {Append(ks, k) : ks \in Tuples(n - 1), k \in Keys}

SingleKeyArgs == {[tuple |-> FALSE, ks |-> <<k>>] : k \in Keys}

TupleKeyArgs ==
    {[tuple |-> TRUE, ks |-> ks] : ks \in UNION {Tuples(n) : n \in 1..MaxPath}}

Item(k, v) == [k |-> k, v |-> v]

(* scalar arguments: bare strings (wrapped by the default transform), a    *)
(* StringTemplate with a sanitizer, a string kept as it is                 *)
ScalarArgs ==
    {Str("x"), Str("y"),
     StringTemplate(Str("x"), FALSE, "slugify", TRUE, NoKwargs),
     StringTemplate(Str("x"), TRUE, "None", TRUE, NoKwargs),
     StringTemplate(Str("x"), FALSE, "None", FALSE, NoKwargs),
     StringTemplate(Str("x"), FALSE, "None", TRUE, [k \in {"A"} |-> "1"]),
     Transform(Str("x"), "identity")}

SequenceArgs ==
    {List(<<>>), List(<<Str("x")>>), List(<<List(<<Str("x")>>)>>),
     List(<<Mapping(<<Item("a", Str("x"))>>)>>)}

MappingArgs ==
    {Mapping(<<>>), Mapping(<<Item("a", Str("y"))>>),
     Mapping(<<Item("a", List(<<Str("y")>>))>>)}

(* a mapping whose second key meets a sequence after its first key was    *)
(* written                                                                 *)
SiblingArgs ==
    {Mapping(<<Item("b", Str("x")), Item("a", Mapping(<<Item("a", Str("y"))>>))>>)}

ValueArgs == ScalarArgs \cup SequenceArgs \cup MappingArgs \cup SiblingArgs

(* values written through a tuple of keys *)
TupleValueArgs ==
    {Str("x"), Str("y"), List(<<Str("x")>>), Mapping(<<Item("a", Str("y"))>>)}

WriteArgs ==
    (SingleKeyArgs \X ValueArgs) \cup (TupleKeyArgs \X TupleValueArgs)

IsScalarArg(value) ==
    LET tr == _get_transform(value, "StringTemplate")
    IN  ~IsMapping(tr.v) /\ ~is_nonstring_sequence(tr.v)

(* the object a scalar argument is stored as *)
Stored(value) ==
    LET tr == _get_transform(value, "StringTemplate") IN _get_value(tr.v, tr.f)

----------------------------------------------------------------------------
(* State machine of one TemplateDict artifact *)

NoOp == [op |-> "none", keys |-> [tuple |-> FALSE, ks |-> <<>>],
         value |-> Str(""), pre |-> EmptyDict, e |-> "ok", rep |-> FALSE]

ST(pat) == StringTemplate(Str(pat), FALSE, "None", TRUE, NoKwargs)

(* _Structure.get_config_dict registers an empty dict and hands out the   *)
(* dict registered before to every later caller: a tool starts from what  *)
(* the tools before it wrote.  written is the set of scalars stored so far *)
(* under each top-level key.                                               *)
InitArtifacts ==
    {[d |-> EmptyDict, w |-> [k \in Keys |-> {}]],
     [d |-> Dict([k \in {"a"} |-> [t |-> "mst", vals |-> {ST("x"), ST("z")}]]),
      w |-> [k \in Keys |-> IF k = "a" THEN {ST("x"), ST("z")} ELSE {}]],
     [d |-> Dict([k \in {"a"} |-> Dict([j \in {"b"} |-> ST("x")])]),
      w |-> [k \in Keys |-> {}]],
     [d |-> Dict([k \in {"a"} |-> List(<<ST("x"), ST("z")>>)]),
      w |-> [k \in Keys |-> {}]]}

TDInit ==
    /\ \E a \in InitArtifacts : td = a.d /\ written = a.w
    /\ tdLast = NoOp
    /\ nWrites = 0

(* proxy[keys] = value *)
SetItem(keys, value) ==
    /\ nWrites < MaxWrites
    /\ LET r == TD_setitem(td, keys, value)
       IN  /\ td' = r.d
           /\ tdLast' = [op |-> "setitem", keys |-> keys, value |-> value,
                         pre |-> td, e |-> r.e,
                         rep |-> /\ tdLast.op = "setitem"
                                 /\ tdLast.keys = keys
                                 /\ tdLast.value = value
                                 /\ tdLast.e = "ok"]
           /\ written' = IF r.e = "ok" /\ Len(keys.ks) = 1 /\ IsScalarArg(value)
                         THEN [written EXCEPT ![keys.ks[1]] = @ \cup {Stored(value)}]
                         ELSE written
    /\ nWrites' = nWrites + 1

(* proxy |= other, proxy.update(other) *)
Update(other) ==
    /\ nWrites < MaxWrites
    /\ LET r == TD_update(td, other)
       IN  /\ td' = r.d
           /\ tdLast' = [op |-> "update", keys |-> [tuple |-> FALSE, ks |-> <<>>],
                         value |-> other, pre |-> td, e |-> r.e, rep |-> FALSE]
           /\ written' = written
    /\ nWrites' = nWrites + 1

TDNext ==
    \/ \E w \in WriteArgs : SetItem(w[1], w[2])
    \/ \E other \in MappingArgs : Update(other)

(* mappings given to update: bare, inside a Transform, with nested levels  *)
(* and with a value that carries its own Transform                         *)
UpdateArgs ==
    MappingArgs \cup
    {Transform(Mapping(<<Item("a", Str("y"))>>), "identity"),
     Transform(Mapping(<<Item("a", Mapping(<<Item("b", Str("y"))>>)),
                         Item("b", List(<<Str("x")>>))>>), "identity"),
     Transform(Mapping(<<Item("b", Transform(Str("x"), "StringTemplate")),
                         Item("a", Str("x"))>>), "identity"),
     Mapping(<<Item("a", Transform(Str("y"), "identity")),
               Item("b", Mapping(<<Item("a", Str("x"))>>))>>)}

UpdateNext ==
    \/ \E w \in WriteArgs : SetItem(w[1], w[2])
    \/ \E other \in UpdateArgs : Update(other)

----------------------------------------------------------------------------
(* TemplateDict of utils.py (the earlier implementation): Requires,       *)
(* MultipleValues, and a Transform whose default transform is the identity *)
(*   [t |-> "req", template, confirmed, sanitizer, kwargs]  a Requires     *)
(*   [t |-> "mv",  vals]        a MultipleValues, vals a list              *)

Requires(template, confirmed, sanitizer, kwargs) ==
    [t |-> "req", template |-> template, confirmed |-> confirmed,
     sanitizer |-> sanitizer, kwargs |-> kwargs]

(* callable(v): Requires and MultipleValues define __call__ *)
Callable(obj) == obj.t \in {"req", "mv"}

UApplyTransform(f, value) ==
    CASE f = "Requires" -> Requires(value, FALSE, "None", NoKwargs)
      [] f = "identity" -> value

(* TemplateDict._get_transform of utils.py: the fallback is Requires *)
U_get_transform(value) ==
    IF value.t = "tr" THEN value ELSE Transform(value, "Requires")

MultipleValues(head, tail) ==
    [t |-> "mv",
     vals |-> IF tail.t = "mv" THEN <<head>> \o tail.vals ELSE <<head, tail>>]

(* the loop `for v in value: if v not in config[key]: config[key].append` *)
RECURSIVE U_append_all(_, _, _, _)
U_append_all(target, l, transform, i) ==
    IF i > Len(l) THEN Ok(target)
    ELSE LET v == l[i]
             new == IF Callable(v) THEN v ELSE UApplyTransform(transform, v)
             r == CASE target.t = "list" ->
                         IF \E j \in 1..Len(target.l) : target.l[j] = v
                         THEN Ok(target)
                         ELSE Ok(List(Append(target.l, new)))
                    [] target.t = "str" ->
                         IF v.t # "str" THEN Raise(target, "TypeError")
                         ELSE IF StrContains(target.v, v.v) THEN Ok(target)
                         ELSE Raise(target, "AttributeError")
                    [] OTHER -> Raise(target, "TypeError")
         IN  IF r.e # "ok" THEN r ELSE U_append_all(r.d, l, transform, i + 1)

(* the terminal assignment on config[key] *)
U_assign(config, key, value, transform) ==
    IF config.t # "dict" THEN Raise(config, "TypeError")
    ELSE IF is_nonstring_sequence(value) THEN
        LET c1 == IF key \in DOMAIN config.m THEN config
                  ELSE Dict(Put(config.m, key, List(<<>>)))
        IN  IF IsMapping(c1.m[key]) THEN Raise(c1, "AssertionError")
            ELSE LET r == U_append_all(c1.m[key], value.l, transform, 1)
                 IN  [d |-> Dict(Put(c1.m, key, r.d)), e |-> r.e]
    ELSE
        LET new == IF Callable(value) THEN value ELSE UApplyTransform(transform, value)
        IN  IF key \in DOMAIN config.m THEN
                IF config.m[key] # new
                THEN Ok(Dict(Put(config.m, key, MultipleValues(new, config.m[key]))))
                ELSE Ok(config)
            ELSE Ok(Dict(Put(config.m, key, new)))

(* the walk over keys[:-1], creating missing dicts, then the assignment *)
RECURSIVE U_walk(_, _, _, _)
U_walk(config, ks, value, transform) ==
    IF Len(ks) = 1 THEN U_assign(config, ks[1], value, transform)
    ELSE IF config.t # "dict" THEN Raise(config, "TypeError")
    ELSE LET c1 == IF Head(ks) \in DOMAIN config.m THEN config
                   ELSE Dict(Put(config.m, Head(ks), EmptyDict))
             r == U_walk(c1.m[Head(ks)], Tail(ks), value, transform)
         IN  [d |-> Dict(Put(c1.m, Head(ks), r.d)), e |-> r.e]

RECURSIVE UD_setitem(_, _, _)
RECURSIVE UD_setitems(_, _, _, _, _)

(* TemplateDict.__setitem__ of utils.py; ks is the tuple of keys (a single *)
(* key is made a 1-tuple first)                                            *)
UD_setitem(data, ks, value) ==
    LET tr == U_get_transform(value)
    IN  IF IsMapping(tr.v) THEN UD_setitems(data, ks, tr.v.items, tr.f, 1)
        ELSE U_walk(data, ks, tr.v, tr.f)

(* `for k, v in value.items(): self[keys + (k,)] = Transform(v, transform)` *)
UD_setitems(data, ks, items, transform, i) ==
    IF i > Len(items) THEN Ok(data)
    ELSE LET r == UD_setitem(data, Append(ks, items[i].k), Transform(items[i].v, transform))
         IN  IF r.e # "ok" THEN r ELSE UD_setitems(r.d, ks, items, transform, i + 1)

(* TemplateDict.__ior__ of utils.py *)
UD_ior(data, other) ==
    LET tr == U_get_transform(other)
    IN  UD_setitems(data, <<>>, tr.v.items, tr.f, 1)

(* arguments: nested Transforms and nested containers inside a list are    *)
(* left out of the arguments of this implementation                        *)
UScalarArgs ==
    {Str("x"), Str("y"), Requires(Str("x"), FALSE, "slugify", NoKwargs),
     Transform(Str("x"), "identity")}

USequenceArgs == {List(<<>>), List(<<Str("x")>>), List(<<Str("x"), Str("y")>>)}

UMappingArgs ==
    {Mapping(<<>>), Mapping(<<Item("a", Str("y"))>>),
     Mapping(<<Item("a", Mapping(<<>>))>>),
     Mapping(<<Item("a", List(<<Str("y")>>))>>)}

UValueArgs == UScalarArgs \cup USequenceArgs \cup UMappingArgs

UWriteArgs ==
    (SingleKeyArgs \X UValueArgs)
    \cup (TupleKeyArgs \X {Str("x"), List(<<Str("x")>>), Mapping(<<>>)})

UDInit ==
    /\ ud = EmptyDict
    /\ udLast = NoOp
    /\ nUWrites = 0

USetItem(keys, value) ==
    /\ nUWrites < MaxWrites
    /\ LET r == UD_setitem(ud, keys.ks, value)
       IN  /\ ud' = r.d
           /\ udLast' = [op |-> "setitem", keys |-> keys, value |-> value,
                         pre |-> ud, e |-> r.e, rep |-> FALSE]
    /\ nUWrites' = nUWrites + 1

UIor(other) ==
    /\ nUWrites < MaxWrites
    /\ LET r == UD_ior(ud, other)
       IN  /\ ud' = r.d
           /\ udLast' = [op |-> "ior", keys |-> [tuple |-> FALSE, ks |-> <<>>],
                         value |-> other, pre |-> ud, e |-> r.e, rep |-> FALSE]
    /\ nUWrites' = nUWrites + 1

UDNext ==
    \/ \E w \in UWriteArgs : USetItem(w[1], w[2])
    \/ \E other \in UMappingArgs : UIor(other)

----------------------------------------------------------------------------
(* Variable catalog (incipyt/project/meta_variables.py) and interactive    *)
(* input (click.prompt)                                                    *)

(* Python's None, kept apart from every str of the model *)
None == "<None>"

Falsy(v) == v = "" \/ v = None

Variable(type, default, prompt, required) ==
    [type |-> type, default |-> default, prompt |-> prompt, required |-> required]

(* The entries of the catalog that differ in default, prompt or required *)
variables ==
    [n \in {"AUTHOR_NAME", "LICENSE", "PACKAGE_VERSION", "SUMMARY_DESCRIPTION"} |->
        CASE n = "AUTHOR_NAME" -> Variable("str", "", TRUE, FALSE)
          [] n = "LICENSE" -> Variable("str", "Copyright", FALSE, FALSE)
          [] n = "PACKAGE_VERSION" -> Variable("str", "0.0.0", TRUE, FALSE)
          [] n = "SUMMARY_DESCRIPTION" -> Variable("str", "", TRUE, TRUE)]

(* var.type(value): every entry above has type str, and str(s) of a str is s *)
ApplyType(type, value) == CASE type = "str" -> value

(* click.prompt(text, default=default) on one line of input: an empty line *)
(* takes the default.                                                      *)
ClickPrompt(default, answer) == IF answer # "" THEN answer ELSE default

(* The result of a lookup: e is "ok" or the exception raised, v the value, *)
(* offered the defaults shown by the prompts issued so far (None for a     *)
(* prompt without default), source the source that gave the value.         *)
Found(v, offered, source) ==
    [e |-> "ok", v |-> v, offered |-> offered, source |-> source]

NotFound(exc, offered) ==
    [e |-> exc, v |-> None, offered |-> offered, source |-> "none"]

(* click.prompt(text) without default: asks until a line is not empty; the *)
(* end of the input raises click.Abort.                                    *)
RECURSIVE click_prompt(_, _)
click_prompt(answers, offered) ==
    IF Len(offered) >= Len(answers) THEN NotFound("Abort", offered)
    ELSE LET answer == answers[Len(offered) + 1]
         IN  IF answer # "" THEN Found(answer, Append(offered, None), "prompt")
             ELSE click_prompt(answers, Append(offered, None))

----------------------------------------------------------------------------
(* _Environment of incipyt/project/environment.py *)

PromptSources == {"config", "tool_prompt", "osenviron_prompt", "default_prompt"}

ConfirmedSources ==
    {"cli", "osenviron_confirmed", "tool_confirmed", "default_confirmed"}

ChainMap_inject_first ==
    <<"cli", "tool_confirmed", "osenviron_confirmed", "default_confirmed",
      "config", "tool_prompt", "osenviron_prompt", "default_prompt">>

ChainMap_config_first ==
    <<"config", "cli", "osenviron_confirmed", "tool_confirmed",
      "default_confirmed", "tool_prompt", "osenviron_prompt", "default_prompt">>

(* self._sources: the maps in the order ChainMap tries them *)
ChainMap ==
    <<"cli", "osenviron_confirmed", "tool_confirmed", "default_confirmed",
      "config", "tool_prompt", "osenviron_prompt", "default_prompt">>

PromptDict_getitem_silent(source, name, answers, offered) ==
    IF name \notin DOMAIN source THEN NotFound("KeyError", offered)
    ELSE Found(source[name], offered, "PromptDict")

(* PromptDict.__getitem__ *)
PromptDict_getitem(source, name, answers, offered) ==
    IF name \notin DOMAIN source THEN NotFound("KeyError", offered)
    ELSE LET var == variables[name]
             default_value == source[name]
         IN  IF var.required /\ default_value = ""
             THEN NotFound("KeyError", offered)
             ELSE IF Len(offered) >= Len(answers)
             THEN NotFound("Abort", offered)
             ELSE LET confirmed_value ==
                          ClickPrompt(default_value, answers[Len(offered) + 1])
                      shown == Append(offered, default_value)
                  IN  IF Falsy(confirmed_value) /\ var.required
                      THEN NotFound("KeyError", shown)
                      ELSE Found(confirmed_value, shown, "PromptDict")

(* ChainMap.__getitem__: the first map that does not raise KeyError *)
RECURSIVE ChainMap_getitem(_, _, _, _, _)
ChainMap_getitem(maps, i, name, answers, offered) ==
    IF i > Len(ChainMap) THEN NotFound("KeyError", offered)
    ELSE LET src == ChainMap[i]
         IN  IF src \in PromptSources
             THEN LET r == PromptDict_getitem(maps[src], name, answers, offered)
                  IN  IF r.e = "KeyError"
                      THEN ChainMap_getitem(maps, i + 1, name, answers, r.offered)
                      ELSE [r EXCEPT !.source = IF r.e = "ok" THEN src ELSE "none"]
             ELSE IF name \in DOMAIN maps[src]
                  THEN Found(maps[src][name], offered, src)
                  ELSE ChainMap_getitem(maps, i + 1, name, answers, offered)

Environment_explicit_prompt_once(name, answers, offered) ==
    IF Len(offered) >= Len(answers) THEN NotFound("Abort", offered)
    ELSE LET answer == ClickPrompt("", answers[Len(offered) + 1])
         IN  Found(IF Falsy(answer) THEN None ELSE answer,
                   Append(offered, ""), "prompt")

(* _Environment._prompt, lines 120-125: no source gave a value *)
Environment_explicit_prompt(name, answers, offered) ==
    IF ~variables[name].required
    THEN IF Len(offered) >= Len(answers) THEN NotFound("Abort", offered)
         ELSE LET answer == ClickPrompt("", answers[Len(offered) + 1])
              IN  Found(IF Falsy(answer) THEN None ELSE answer,
                        Append(offered, ""), "prompt")
    ELSE click_prompt(answers, offered)

(* _Environment._prompt *)
Environment_prompt(maps, name, answers) ==
    IF name \notin DOMAIN variables THEN NotFound("ValueError", <<>>)
    ELSE LET r == ChainMap_getitem(maps, 1, name, answers, <<>>)
         IN  IF r.e # "KeyError" THEN r
             ELSE Environment_explicit_prompt(name, answers, r.offered)

(* _Environment._feed: options is the sequence of (key, value) items of    *)
(* the dict given; the pairs before an unknown key are stored.             *)
RECURSIVE Environment_feed(_, _, _, _)
Environment_feed(maps, source_name, options, i) ==
    IF i > Len(options) THEN [maps |-> maps, e |-> "ok"]
    ELSE LET key == options[i][1]
             value == options[i][2]
         IN  IF key \notin DOMAIN variables
             THEN [maps |-> maps, e |-> "ValueError"]
             ELSE Environment_feed(
                      [maps EXCEPT ![source_name] =
                           Put(@, key, ApplyType(variables[key].type, value))],
                      source_name, options, i + 1)

(* State machine of the environ singleton *)

EnvNoOp ==
    [op |-> "none", name |-> "", value |-> "", answers |-> <<>>, hit |-> FALSE,
     e |-> "ok", v |-> None, offered |-> <<>>, source |-> "none",
     arg |-> Str(""), order |-> <<>>, pre |-> <<>>]

EmptySources == [s \in ConfirmedSources \cup PromptSources |-> <<>>]

(* environ = _Environment(): __init__ calls clear *)
EnvInit ==
    /\ envData = <<>>
    /\ envSources = EmptySources
    /\ envLast = EnvNoOp
    /\ nFeeds = 0
    /\ nGets = 0

(* environ.clear() *)
EnvClear ==
    /\ nFeeds < MaxFeeds
    /\ envData' = <<>>
    /\ envSources' = EmptySources
    /\ envLast' = [EnvNoOp EXCEPT !.op = "clear"]
    /\ nFeeds' = nFeeds + 1
    /\ UNCHANGED nGets

EnvGet_nocache(name, answers) ==
    /\ nGets < MaxGets
    /\ LET r == IF name \in DOMAIN envData
                THEN Found(envData[name], <<>>, "data")
                ELSE Environment_prompt(envSources, name, answers)
       IN  envLast' = [EnvNoOp EXCEPT !.op = "get", !.name = name,
                                      !.answers = answers, !.e = r.e,
                                      !.hit = name \in DOMAIN envData,
                                      !.v = r.v, !.offered = r.offered,
                                      !.source = r.source]
    /\ nGets' = nGets + 1
    /\ UNCHANGED <<envData, envSources, nFeeds>>

(* environ[name], the user typing the lines of answers when asked *)
EnvGet(name, answers) ==
    /\ nGets < MaxGets
    /\ IF name \in DOMAIN envData
       THEN /\ envData' = envData
            /\ envLast' = [EnvNoOp EXCEPT !.op = "get", !.name = name,
                                          !.answers = answers, !.hit = TRUE,
                                          !.v = envData[name], !.source = "data"]
       ELSE LET r == Environment_prompt(envSources, name, answers)
            IN  /\ envData' = IF r.e = "ok" THEN Put(envData, name, r.v) ELSE envData
                /\ envLast' = [EnvNoOp EXCEPT !.op = "get", !.name = name,
                                              !.answers = answers, !.e = r.e,
                                              !.v = r.v, !.offered = r.offered,
                                              !.source = r.source]
    /\ nGets' = nGets + 1
    /\ UNCHANGED <<envSources, nFeeds>>

(* environ[name] = value *)
EnvSet(name, value) ==
    /\ nGets < MaxGets
    /\ envData' = IF name \in DOMAIN envData THEN envData ELSE Put(envData, name, value)
    /\ envLast' = [EnvNoOp EXCEPT !.op = "set", !.name = name, !.value = value,
                                  !.hit = name \in DOMAIN envData,
                                  !.e = IF name \in DOMAIN envData
                                        THEN "ValueError" ELSE "ok"]
    /\ nGets' = nGets + 1
    /\ UNCHANGED <<envSources, nFeeds>>

(* environ.inject(name, value) *)
Inject(name, value) ==
    /\ nFeeds < MaxFeeds
    /\ envSources' = [envSources EXCEPT !["tool_confirmed"] = Put(@, name, value)]
    /\ envLast' = [EnvNoOp EXCEPT !.op = "inject"]
    /\ nFeeds' = nFeeds + 1
    /\ UNCHANGED <<envData, nGets>>

(* environ.suggest(name, value) *)
Suggest(name, value) ==
    /\ nFeeds < MaxFeeds
    /\ envSources' = [envSources EXCEPT !["tool_prompt"] = Put(@, name, value)]
    /\ envLast' = [EnvNoOp EXCEPT !.op = "suggest"]
    /\ nFeeds' = nFeeds + 1
    /\ UNCHANGED <<envData, nGets>>

(* feed_cli, feed_config, feed_tool, feed_osenviron, feed_default with the *)
(* one-item dict {name: value}; source_name is the source the partial      *)
(* method and its prompt flag select.                                      *)
Feed(source_name, name, value) ==
    /\ nFeeds < MaxFeeds
    /\ LET r == Environment_feed(envSources, source_name, <<<<name, value>>>>, 1)
       IN  /\ envSources' = r.maps
           /\ envLast' = [EnvNoOp EXCEPT !.op = "feed", !.e = r.e]
    /\ nFeeds' = nFeeds + 1
    /\ UNCHANGED <<envData, nGets>>

(* The names of the catalog in the order they were registered *)
VariableNames == <<"AUTHOR_NAME", "LICENSE", "PACKAGE_VERSION", "SUMMARY_DESCRIPTION">>

(* A key of os.environ: OS_ENVIRON_PREFIX + name, or name *)
OsKey(prefixed, name) == [prefixed |-> prefixed, name |-> name]

IsPrefixed(item) == item[1].prefixed

IsCatalogued(item) == ~item[1].prefixed /\ item[1].name \in DOMAIN variables

NoPrompt(n) == ~variables[n].prompt

PromptWithDefault(n) == variables[n].prompt /\ ~Falsy(variables[n].default)

StripKeys(items) == [i \in 1..Len(items) |-> <<items[i][1].name, items[i][2]>>]

Defaults(names) == [i \in 1..Len(names) |-> <<names[i], variables[names[i]].default>>]

FeedNext(r, source_name, options) ==
    IF r.e # "ok" THEN r ELSE Environment_feed(r.maps, source_name, options, 1)

(* feed_environ of __main__.py: clear, then the feeds in the order written *)
feed_environ(config_options, cli_options, osenviron) ==
    LET r0 == [maps |-> EmptySources, e |-> "ok"]
        r1 == FeedNext(r0, "cli", cli_options)
        r2 == FeedNext(r1, "config", config_options)
        r3 == FeedNext(r2, "osenviron_confirmed",
                       StripKeys(SelectSeq(osenviron, IsPrefixed)))
        r4 == FeedNext(r3, "osenviron_prompt",
                       StripKeys(SelectSeq(osenviron, IsCatalogued)))
        r5 == FeedNext(r4, "default_confirmed",
                       Defaults(SelectSeq(VariableNames, NoPrompt)))
    IN  FeedNext(r5, "default_prompt",
                 Defaults(SelectSeq(VariableNames, PromptWithDefault)))

FeedEnviron(config_options, cli_options, osenviron) ==
    /\ nFeeds < MaxFeeds
    /\ LET r == feed_environ(config_options, cli_options, osenviron)
       IN  /\ envSources' = r.maps
           /\ envLast' = [EnvNoOp EXCEPT !.op = "feed_environ", !.e = r.e]
    /\ envData' = <<>>
    /\ nFeeds' = nFeeds + 1
    /\ UNCHANGED nGets

(* Inputs *)

Required == "SUMMARY_DESCRIPTION"

Optional == "AUTHOR_NAME"

UnknownName == "PYENV_ROOT"

(* A value that tells which source it was fed to *)
ValueOf(source_name) == "v_" \o source_name

FeedArgs ==
    {<<s, Required, ValueOf(s)>> : s \in ConfirmedSources \cup PromptSources}
    \cup {<<s, Required, "">> : s \in {"cli", "config", "default_prompt"}}
    \cup {<<"config", Optional, "">>, <<"cli", UnknownName, "v">>}

InjectArgs == {<<Optional, "w">>, <<UnknownName, "w">>}

SuggestArgs == {<<Required, "w">>, <<Optional, "">>}

SetArgs == {<<Required, "s">>, <<Optional, "">>}

AnswerStreams == {<<>>, <<"w">>, <<"", "", "hello">>}

GetArgs ==
    ({Required, Optional} \X AnswerStreams)
    \cup {<<"PACKAGE_VERSION", <<"", "", "hello">> >>,
          <<"LICENSE", <<"w">> >>, <<UnknownName, <<"w">> >>}

FeedEnvironArgs ==
    {[config_options |-> <<>>, cli_options |-> <<>>, osenviron |-> <<>>],
     [config_options |-> << <<Required, "v_config">>, <<"LICENSE", "MIT">> >>,
      cli_options |-> << <<"PACKAGE_VERSION", "1.0">> >>,
      osenviron |-> << <<OsKey(TRUE, Required), "v_osenviron_confirmed">>,
                       <<OsKey(FALSE, Optional), "v_osenviron_prompt">>,
                       <<OsKey(FALSE, "HOME"), "/root">> >>],
     [config_options |-> << <<Optional, "">> >>,
      cli_options |-> <<>>,
      osenviron |-> << <<OsKey(FALSE, Required), "v_osenviron_prompt">>,
                       <<OsKey(TRUE, "HOME"), "/root">> >>]}

EnvNext ==
    \/ EnvClear
    \/ \E a \in GetArgs : EnvGet(a[1], a[2])
    \/ \E a \in SetArgs : EnvSet(a[1], a[2])
    \/ \E a \in InjectArgs : Inject(a[1], a[2])
    \/ \E a \in SuggestArgs : Suggest(a[1], a[2])
    \/ \E a \in FeedArgs : Feed(a[1], a[2], a[3])
    \/ \E a \in FeedEnvironArgs :
           FeedEnviron(a.config_options, a.cli_options, a.osenviron)

----------------------------------------------------------------------------
(* _Environ of incipyt/project.py.  The store is the record                *)
(* [data, confirmed]: self.data and self._confirmed.                       *)

(* sys.executable *)
sys_executable == "/usr/bin/python3"

(* EnvValue(value, confirmed=False, update=False) *)
EnvValue(value, confirmed, update) ==
    [t |-> "EnvValue", value |-> value, confirmed |-> confirmed, update |-> update]

EnvironOk(d, v, offered) == [d |-> d, e |-> "ok", v |-> v, offered |-> offered]

EnvironRaise(d, exc, offered) == [d |-> d, e |-> exc, v |-> None, offered |-> offered]

(* _Environ.clear, os_environ being the content of os.environ *)
Environ_clear(os_environ) ==
    [data |-> IF "PYTHON_CMD" \in DOMAIN os_environ THEN os_environ
              ELSE Put(os_environ, "PYTHON_CMD", sys_executable),
     confirmed |-> {"PYTHON_CMD"}]

(* a lookup that confirms the name before it asks for its value *)
Environ_getitem_confirm_first(d, key, answers, offered) ==
    IF key \in d.confirmed THEN EnvironOk(d, d.data[key], offered)
    ELSE IF Len(offered) >= Len(answers)
    THEN EnvironRaise([d EXCEPT !.confirmed = @ \cup {key}], "Abort", offered)
    ELSE LET default == IF key \in DOMAIN d.data THEN d.data[key] ELSE ""
             answer == ClickPrompt(default, answers[Len(offered) + 1])
         IN  EnvironOk([data |-> Put(d.data, key, answer),
                        confirmed |-> d.confirmed \cup {key}],
                       answer, Append(offered, default))

(* _Environ.__getitem__ with _Environ._prompt; offered lists the defaults  *)
(* of the prompts issued so far, the next line of answers is the reply.    *)
Environ_getitem(d, key, answers, offered) ==
    IF key \in d.confirmed THEN EnvironOk(d, d.data[key], offered)
    ELSE IF Len(offered) >= Len(answers) THEN EnvironRaise(d, "Abort", offered)
    ELSE LET default == IF key \in DOMAIN d.data THEN d.data[key] ELSE ""
             answer == ClickPrompt(default, answers[Len(offered) + 1])
         IN  EnvironOk([data |-> Put(d.data, key, answer),
                        confirmed |-> d.confirmed \cup {key}],
                       answer, Append(offered, default))

Environ_setitem_overwrite(d, key, env_value) ==
    LET ev == IF env_value.t = "EnvValue" THEN env_value
              ELSE EnvValue(env_value.v, FALSE, FALSE)
    IN  EnvironOk([data |-> Put(d.data, key, ev.value),
                   confirmed |-> IF ev.confirmed THEN d.confirmed \cup {key}
                                 ELSE d.confirmed],
                  None, <<>>)

(* _Environ.__setitem__; env_value is an EnvValue or a bare str *)
Environ_setitem(d, key, env_value) ==
    LET ev == IF env_value.t = "EnvValue" THEN env_value
              ELSE EnvValue(env_value.v, FALSE, FALSE)
    IN  IF key \in DOMAIN d.data /\ ~ev.update
        THEN EnvironRaise(d, "ValueError", <<>>)
        ELSE EnvironOk([data |-> Put(d.data, key, ev.value),
                        confirmed |-> IF ev.confirmed THEN d.confirmed \cup {key}
                                      ELSE d.confirmed],
                       None, <<>>)

(* an iteration over everything the store holds *)
Environ_iter_data(d) == DOMAIN d.data

(* _Environ.__iter__ and keys(): the names, in the order of a Python set *)
Environ_iter(d) == d.confirmed

(* _Environ.__contains__ *)
Environ_contains(d, key) == key \in d.confirmed

(* _Environ.values() *)
Environ_values(d) == {d.data[key] : key \in Environ_iter(d)}

(* _Environ.items() *)
Environ_items(d) == {<<key, d.data[key]>> : key \in Environ_iter(d)}

----------------------------------------------------------------------------
(* StringTemplate.format and FormatterEnviron of templates.py *)

Lit(s) == [t |-> "lit", s |-> s]

Field(name) == [t |-> "field", name |-> name]

(* string.Formatter().parse(format_string) on the patterns of the model *)
Parse(format_string) ==
    CASE format_string = "{A}" -> <<Field("A")>>
      [] format_string = "{A}-{B}" -> <<Field("A"), Lit("-"), Field("B")>>
      [] format_string = "{AUTHOR_NAME}" -> <<Field("AUTHOR_NAME")>>
      [] format_string = "{PYENV_ROOT}" -> <<Field("PYENV_ROOT")>>
      [] format_string = "{PACKAGE_VERSION}" -> <<Field("PACKAGE_VERSION")>>
      [] format_string = "{AUTHOR_NAME}-{SUMMARY_DESCRIPTION}" ->
             <<Field("AUTHOR_NAME"), Lit("-"), Field("SUMMARY_DESCRIPTION")>>
      [] OTHER -> <<Lit(format_string)>>

(* self._keys *)
FieldNames(parts) == {parts[i].name : i \in {j \in 1..Len(parts) : parts[j].t = "field"}}

(* str(value) of a str or of None *)
Text(value) == IF value = None THEN "None" ELSE value

(* the values of the model that are digits separated by dots *)
Versions == {"0.0.0", "1.0"}

(* What calling the sanitizer raises: sanitizers.version raises ValueError *)
(* for a str that is not a version, and None has no split.                 *)
SanitizeError(sanitizer, key, value) ==
    IF sanitizer # "version" THEN "ok"
    ELSE IF value = None THEN "AttributeError"
    ELSE IF value \notin Versions THEN "ValueError"
    ELSE "ok"

(* The sanitizers (key, value) -> str of the model: none, the one of       *)
(* tests/test_templates.py that appends "-sanitizer", sanitizers.version.  *)
Sanitize(sanitizer, key, value) ==
    CASE sanitizer = "None" -> value
      [] sanitizer = "suffix" -> Text(value) \o "-sanitizer"
      [] sanitizer = "version" -> value

(* The exception format_string.format raises when a fetch under its **     *)
(* raised exc: CPython reports an AttributeError as the TypeError          *)
(* "argument after ** must be a mapping".                                  *)
RaisedUnderStars(exc) == IF exc = "AttributeError" THEN "TypeError" ELSE exc

(* format_string.format over the mapping values *)
RECURSIVE Substitute(_, _, _)
Substitute(parts, values, i) ==
    IF i > Len(parts) THEN ""
    ELSE (IF parts[i].t = "lit" THEN parts[i].s ELSE Text(values[parts[i].name]))
         \o Substitute(parts, values, i + 1)

(* The orders in which a Python set of str can be iterated *)
Orders(keyset) ==
    {o \in [1..Cardinality(keyset) -> keyset] :
         \A i, j \in DOMAIN o : i # j => o[i] # o[j]}

(* FormatterEnviron.format, lines 556-558: the overrides are written to    *)
(* the environ, key by key in the iteration order of self._keys.           *)
RECURSIVE PushOverrides(_, _, _, _)
PushOverrides(d, template, order, i) ==
    IF i > Len(order) THEN EnvironOk(d, None, <<>>)
    ELSE IF order[i] \notin DOMAIN template.kw
         THEN PushOverrides(d, template, order, i + 1)
         ELSE LET r == Environ_setitem(d, order[i],
                           EnvValue(template.kw[order[i]], template.conf, FALSE))
              IN  IF r.e # "ok" THEN r
                  ELSE PushOverrides(r.d, template, order, i + 1)

(* format_string.format over self: every key of self is fetched through   *)
(* FormatterEnviron.__getitem__ before the string is built; values maps    *)
(* the keys fetched so far to their sanitized values.                      *)
RECURSIVE FetchAll(_, _, _, _, _, _, _)
FetchAll(d, template, order, i, answers, offered, values) ==
    IF i > Len(order)
    THEN EnvironOk(d, Substitute(Parse(template.pat.v), values, 1), offered)
    ELSE LET r == Environ_getitem(d, order[i], answers, offered)
         IN  IF r.e # "ok" THEN r
             ELSE IF template.verr /\ Falsy(r.v)
             THEN EnvironRaise(r.d, "ValueError", r.offered)
             ELSE IF SanitizeError(template.san, order[i], r.v) # "ok"
             THEN EnvironRaise(r.d,
                               RaisedUnderStars(SanitizeError(template.san,
                                                              order[i], r.v)),
                               r.offered)
             ELSE FetchAll(r.d, template, order, i + 1, answers, r.offered,
                           Put(values, order[i],
                               Sanitize(template.san, order[i], r.v)))

(* StringTemplate.format(): a ValueError of the overrides propagates, a    *)
(* ValueError of a fetch is suppressed and None returned.                  *)
StringTemplate_format(d, template, order, answers) ==
    LET pushed == PushOverrides(d, template, order, 1)
    IN  IF pushed.e # "ok" THEN pushed
        ELSE LET r == FetchAll(pushed.d, template, order, 1, answers, <<>>, <<>>)
             IN  IF r.e = "ValueError" THEN EnvironOk(r.d, None, r.offered)
                 ELSE r

(* State machine of the environ singleton of project.py.  environResolved  *)
(* is the set of names a read has returned a value for since the last      *)
(* clear; environLast describes the last operation, pre being the store    *)
(* before it and after the update (key, value) made by the operation just  *)
(* before, if that one replaced a confirmed value.                         *)

NoUpdate == [key |-> "", value |-> ""]

EnvironNoOp ==
    [op |-> "none", key |-> "", arg |-> Str(""), answers |-> <<>>, e |-> "ok",
     v |-> None, offered |-> <<>>, after |-> NoUpdate,
     pre |-> [data |-> <<>>, confirmed |-> {}, resolved |-> {}]]

Store == [data |-> environData, confirmed |-> environConfirmed]

Pre == [data |-> environData, confirmed |-> environConfirmed,
        resolved |-> environResolved]

(* The update a set has just made to a name that was confirmed *)
Updated(last) ==
    IF /\ last.op = "set"
       /\ last.e = "ok"
       /\ last.arg.t = "EnvValue"
       /\ last.key \in last.pre.confirmed
    THEN [key |-> last.key, value |-> last.arg.value]
    ELSE NoUpdate

OsEnvirons ==
    {<<>>, [k \in {"A"} |-> "1"],
     [k \in {"A", "PYTHON_CMD"} |-> IF k = "A" THEN "" ELSE "python"]}

(* environ = _Environ(): __init__ calls clear *)
EnvironInitWith(os_environ) ==
    /\ environData = Environ_clear(os_environ).data
    /\ environConfirmed = Environ_clear(os_environ).confirmed
    /\ environResolved = {}
    /\ environLast = EnvironNoOp
    /\ nEnvironOps = 0

EnvironInit == \E os_environ \in OsEnvirons : EnvironInitWith(os_environ)

EnvironIdle == EnvironInitWith(<<>>)

(* environ.clear() *)
EnvironClear(os_environ) ==
    /\ nEnvironOps < MaxEnvironOps
    /\ environData' = Environ_clear(os_environ).data
    /\ environConfirmed' = Environ_clear(os_environ).confirmed
    /\ environResolved' = {}
    /\ environLast' = [EnvironNoOp EXCEPT !.op = "clear", !.pre = Pre]
    /\ nEnvironOps' = nEnvironOps + 1

(* environ[key] *)
EnvironGet(key, answers) ==
    /\ nEnvironOps < MaxEnvironOps
    /\ LET r == Environ_getitem(Store, key, answers, <<>>)
       IN  /\ environData' = r.d.data
           /\ environConfirmed' = r.d.confirmed
           /\ environResolved' = IF r.e = "ok" THEN environResolved \cup {key}
                                 ELSE environResolved
           /\ environLast' = [EnvironNoOp EXCEPT !.op = "get", !.key = key,
                                  !.answers = answers, !.e = r.e, !.v = r.v,
                                  !.offered = r.offered, !.pre = Pre,
                                  !.after = Updated(environLast)]
    /\ nEnvironOps' = nEnvironOps + 1

(* environ[key] = env_value *)
EnvironSet(key, env_value) ==
    /\ nEnvironOps < MaxEnvironOps
    /\ LET r == Environ_setitem(Store, key, env_value)
       IN  /\ environData' = r.d.data
           /\ environConfirmed' = r.d.confirmed
           /\ environLast' = [EnvironNoOp EXCEPT !.op = "set", !.key = key,
                                  !.arg = env_value, !.e = r.e, !.pre = Pre]
    /\ environResolved' = environResolved
    /\ nEnvironOps' = nEnvironOps + 1

(* template.format(), self._keys iterating in the given order *)
Format(template, order, answers) ==
    /\ nEnvironOps < MaxEnvironOps
    /\ LET r == StringTemplate_format(Store, template, order, answers)
       IN  /\ environData' = r.d.data
           /\ environConfirmed' = r.d.confirmed
           /\ environResolved' =
                  environResolved \cup (r.d.confirmed \ environConfirmed)
                  \cup IF r.e = "ok" /\ r.v # None
                       THEN FieldNames(Parse(template.pat.v)) ELSE {}
           /\ environLast' = [EnvironNoOp EXCEPT !.op = "format", !.arg = template,
                                  !.answers = answers, !.e = r.e, !.v = r.v,
                                  !.offered = r.offered, !.pre = Pre]
    /\ nEnvironOps' = nEnvironOps + 1

(* Inputs *)

EnvironKeys == {"A", "B"}

EnvValueArgs ==
    {Str("2"), Str(""), EnvValue("2", TRUE, FALSE), EnvValue("2", FALSE, TRUE),
     EnvValue("", TRUE, TRUE)}

EnvironAnswers == {<<>>, <<"">>, <<"3">>, <<"", "3">>}

FormatArgs ==
    {StringTemplate(Str("{A}"), FALSE, "None", TRUE, NoKwargs),
     StringTemplate(Str("{A}-{B}"), FALSE, "None", TRUE, NoKwargs),
     StringTemplate(Str("{A}"), FALSE, "suffix", FALSE, NoKwargs),
     StringTemplate(Str("{A}"), FALSE, "None", TRUE, [k \in {"A"} |-> "1"]),
     StringTemplate(Str("{A}-{B}"), TRUE, "None", TRUE, [k \in {"B"} |-> "1"]),
     StringTemplate(Str("x"), FALSE, "None", TRUE, NoKwargs)}

EnvironNext ==
    \/ \E os_environ \in OsEnvirons : EnvironClear(os_environ)
    \/ \E key \in EnvironKeys \cup {"PYTHON_CMD"}, answers \in EnvironAnswers :
           EnvironGet(key, answers)
    \/ \E key \in EnvironKeys, env_value \in EnvValueArgs : EnvironSet(key, env_value)
    \/ \E template \in FormatArgs, answers \in EnvironAnswers :
           \E order \in Orders(FieldNames(Parse(template.pat.v))) :
               Format(template, order, answers)

----------------------------------------------------------------------------
(* StringTemplate.format and FormatterEnviron over the _Environment of     *)
(* environment.py (tests/test_renderers.py).  A result is [d, e, v,        *)
(* offered], d being the data of the environment afterwards.               *)

(* The EnvValue object itself, as _Environment.__setitem__ stores it and   *)
(* str.format renders it: a non-empty token that is no str of the inputs.  *)
ObjectOf(env_value) == "<EnvValue " \o env_value.value \o ">"

(* _Environment.__getitem__ *)
(* a lookup that does not keep what it resolved *)
Environment_getitem_nocache(d, maps, name, answers, offered) ==
    IF name \in DOMAIN d THEN EnvironOk(d, d[name], offered)
    ELSE IF name \notin DOMAIN variables THEN EnvironRaise(d, "ValueError", offered)
    ELSE Only({IF r.e = "ok" THEN EnvironOk(d, r.v, r.offered)
               ELSE EnvironRaise(d, r.e, r.offered) :
               r \in {Only({IF f.e # "KeyError" THEN f
                            ELSE Environment_explicit_prompt(name, answers, f.offered) :
                            f \in {ChainMap_getitem(maps, 1, name, answers, offered)}})}})

Environment_getitem(d, maps, name, answers, offered) ==
    IF name \in DOMAIN d THEN EnvironOk(d, d[name], offered)
    ELSE IF name \notin DOMAIN variables THEN EnvironRaise(d, "ValueError", offered)
    ELSE Only({IF r.e = "ok" THEN EnvironOk(Put(d, name, r.v), r.v, r.offered)
               ELSE EnvironRaise(d, r.e, r.offered) :
               r \in {Only({IF f.e # "KeyError" THEN f
                            ELSE Environment_explicit_prompt(name, answers, f.offered) :
                            f \in {ChainMap_getitem(maps, 1, name, answers, offered)}})}})

(* _Environment.__setitem__ *)
Environment_setitem(d, key, value) ==
    IF key \in DOMAIN d THEN EnvironRaise(d, "ValueError", <<>>)
    ELSE EnvironOk(Put(d, key, value), None, <<>>)

(* FormatterEnviron.format, lines 556-558 *)
RECURSIVE EnvPushOverrides(_, _, _, _)
EnvPushOverrides(d, template, order, i) ==
    IF i > Len(order) THEN EnvironOk(d, None, <<>>)
    ELSE IF order[i] \notin DOMAIN template.kw
         THEN EnvPushOverrides(d, template, order, i + 1)
         ELSE LET r == Environment_setitem(d, order[i],
                           ObjectOf(EnvValue(template.kw[order[i]],
                                             template.conf, FALSE)))
              IN  IF r.e # "ok" THEN r
                  ELSE EnvPushOverrides(r.d, template, order, i + 1)

(* format_string.format over self, FormatterEnviron.__getitem__ per key *)
RECURSIVE EnvFetchAll(_, _, _, _, _, _, _, _)
EnvFetchAll(d, maps, template, order, i, answers, offered, values) ==
    IF i > Len(order)
    THEN EnvironOk(d, Substitute(Parse(template.pat.v), values, 1), offered)
    ELSE Only({IF r.e # "ok" THEN r
               ELSE IF template.verr /\ Falsy(r.v)
               THEN EnvironRaise(r.d, "ValueError", r.offered)
               ELSE IF SanitizeError(template.san, order[i], r.v) # "ok"
               THEN EnvironRaise(r.d,
                                 RaisedUnderStars(SanitizeError(template.san,
                                                                order[i], r.v)),
                                 r.offered)
               ELSE EnvFetchAll(r.d, maps, template, order, i + 1, answers,
                                r.offered,
                                Put(values, order[i],
                                    Sanitize(template.san, order[i], r.v))) :
               r \in {Environment_getitem(d, maps, order[i], answers, offered)}})

(* a format that suppresses nothing *)
EnvStringTemplate_format_raising(d, maps, template, order, answers) ==
    Only({IF pushed.e # "ok" THEN pushed
          ELSE EnvFetchAll(pushed.d, maps, template, order, 1, answers,
                           <<>>, <<>>) :
          pushed \in {EnvPushOverrides(d, template, order, 1)}})

(* StringTemplate.format(): suppress(ValueError) around the rendering      *)
(* turns every ValueError raised by a fetch into the result None.          *)
EnvStringTemplate_format(d, maps, template, order, answers) ==
    Only({IF pushed.e # "ok" THEN pushed
          ELSE Only({IF r.e = "ValueError" THEN EnvironOk(r.d, None, r.offered)
                     ELSE r :
                     r \in {EnvFetchAll(pushed.d, maps, template, order, 1,
                                        answers, <<>>, <<>>)}}) :
          pushed \in {EnvPushOverrides(d, template, order, 1)}})

(* template.format() against the environ singleton of environment.py *)
EnvFormat(template, order, answers) ==
    /\ nGets < MaxGets
    /\ LET r == EnvStringTemplate_format(envData, envSources, template, order,
                                         answers)
       IN  /\ envData' = r.d
           /\ envLast' = [EnvNoOp EXCEPT !.op = "format", !.arg = template,
                                         !.order = order, !.answers = answers,
                                         !.e = r.e, !.v = r.v,
                                         !.offered = r.offered, !.pre = envData]
    /\ nGets' = nGets + 1
    /\ UNCHANGED <<envSources, nFeeds>>

(* Inputs *)

RenderArgs ==
    {StringTemplate(Str("{AUTHOR_NAME}"), FALSE, "None", TRUE, NoKwargs),
     StringTemplate(Str("{AUTHOR_NAME}-{SUMMARY_DESCRIPTION}"), FALSE, "None",
                    TRUE, NoKwargs),
     StringTemplate(Str("{AUTHOR_NAME}"), FALSE, "suffix", FALSE, NoKwargs),
     StringTemplate(Str("{AUTHOR_NAME}"), FALSE, "None", TRUE,
                    [k \in {"AUTHOR_NAME"} |-> "al"]),
     StringTemplate(Str("{PYENV_ROOT}"), FALSE, "None", TRUE, NoKwargs)}

RenderAnswers == {<<>>, <<"">>, <<"w">>, <<"", "w">>, <<"w", "w">>}

RenderInjectArgs == {<<Optional, "w">>, <<UnknownName, "w">>}

RenderSuggestArgs == {<<Required, "w">>, <<Optional, "">>}

RenderGetArgs ==
    {<<Optional, <<"">> >>, <<Optional, <<"w">> >>, <<Required, <<"w">> >>,
     <<UnknownName, <<"w">> >>}

RenderNext ==
    \/ \E a \in RenderInjectArgs : Inject(a[1], a[2])
    \/ \E a \in RenderSuggestArgs : Suggest(a[1], a[2])
    \/ \E a \in FeedEnvironArgs :
           FeedEnviron(a.config_options, a.cli_options, a.osenviron)
    \/ \E a \in RenderGetArgs : EnvGet(a[1], a[2])
    \/ \E a \in SetArgs : EnvSet(a[1], a[2])
    \/ \E template \in RenderArgs, answers \in RenderAnswers :
           \E order \in Orders(FieldNames(Parse(template.pat.v))) :
               EnvFormat(template, order, answers)

----------------------------------------------------------------------------
(* The resolution visitor: visit of incipyt/project/structure.py.  A       *)
(* result is [s, d, offered, e, formats]: the container afterwards (every  *)
(* mutation made before an exception is kept), the data of the             *)
(* environment, the prompts issued, "ok" or the exception, and the values  *)
(* whose format() was called, in the order of the calls.                   *)

PyNone == [t |-> "none"]

Visited(s, d, offered, e) ==
    [s |-> s, d |-> d, offered |-> offered, e |-> e, formats |-> <<>>]

(* isinstance(value, templates.Formattable) *)
Formattable(value) == value.t \in {"st", "mst"}

SetToSeq(S) == CHOOSE o \in Orders(S) : TRUE

(* click.prompt(text, type=click.Choice(choices)): asks until the line is  *)
(* one of the choices, a list.                                             *)
RECURSIVE click_prompt_choice(_, _, _)
click_prompt_choice(choices, answers, offered) ==
    IF Len(offered) >= Len(answers) THEN NotFound("Abort", offered)
    ELSE LET answer == answers[Len(offered) + 1]
         IN  IF \E i \in DOMAIN choices : choices[i] = answer
             THEN Found(answer, Append(offered, None), "prompt")
             ELSE click_prompt_choice(choices, answers, Append(offered, None))

(* StringTemplate.format() in the course of a visit: offered holds the     *)
(* prompts the visit issued before.                                        *)
StringTemplate_format_visit(value, d, maps, answers, offered) ==
    IF value.pat.t # "str" THEN EnvironRaise(d, "TypeError", offered)
    ELSE LET order == SetToSeq(FieldNames(Parse(value.pat.v)))
         IN  Only({IF pushed.e # "ok" THEN EnvironRaise(pushed.d, pushed.e, offered)
                   ELSE Only({IF r.e = "ValueError"
                              THEN EnvironOk(r.d, None, r.offered)
                              ELSE r :
                              r \in {EnvFetchAll(pushed.d, maps, value, order, 1,
                                                 answers, offered, <<>>)}}) :
                   pushed \in {EnvPushOverrides(d, value, order, 1)}})

(* "value.format() if utils.formattable(value) else value": a candidate   *)
(* kept as a bare str is rendered by str.format without arguments.         *)
Candidate_format(value, d, maps, answers, offered) ==
    IF value.t = "str"
    THEN IF FieldNames(Parse(value.v)) # {}
         THEN EnvironRaise(d, "KeyError", offered)
         ELSE EnvironOk(d, Substitute(Parse(value.v), <<>>, 1), offered)
    ELSE StringTemplate_format_visit(value, d, maps, answers, offered)

(* MultiStringTemplate.format(): the candidates are formatted one after    *)
(* the other into a list, then the list is shown as the menu.              *)
(* The order in which a Python set of candidates is iterated: it follows  *)
(* the hashes, so either way round for a pair.                             *)
Reversed(l) == [i \in DOMAIN l |-> l[Len(l) + 1 - i]]

SetOrder(S, rev) == IF rev THEN Reversed(SetToSeq(S)) ELSE SetToSeq(S)

RECURSIVE FormatCandidates(_, _, _, _, _, _, _)
FormatCandidates(cands, i, d, maps, answers, offered, choices) ==
    IF i > Len(cands) THEN EnvironOk(d, choices, offered)
    ELSE Only({IF r.e # "ok" THEN r
               ELSE FormatCandidates(cands, i + 1, r.d, maps, answers, r.offered,
                                     Append(choices, r.v)) :
               r \in {Candidate_format(cands[i], d, maps, answers, offered)}})

MultiStringTemplate_format(value, d, maps, answers, offered, rev) ==
    Only({IF c.e # "ok" THEN c
          ELSE Only({[d |-> c.d, e |-> r.e, v |-> r.v, offered |-> r.offered,
                      menu |-> c.v] :
                     r \in {click_prompt_choice(c.v, answers, c.offered)}}) :
          c \in {FormatCandidates(SetOrder(value.vals, rev), 1, d, maps, answers,
                                  offered, <<>>)}})

Formattable_format(value, d, maps, answers, offered, rev) ==
    IF value.t = "mst"
    THEN MultiStringTemplate_format(value, d, maps, answers, offered, rev)
    ELSE StringTemplate_format_visit(value, d, maps, answers, offered)

(* the entry is left as the visit made it *)
Emptied_keep(value) == value

(* structure.py lines 26-27 and 40-41 *)
Emptied(value) ==
    IF value = List(<<>>) \/ value = EmptyDict THEN PyNone ELSE value

(* "while None in template: template.remove(None)" *)
RemoveNone(l) == SelectSeq(l, LAMBDA x : x # PyNone)

(* "del template[key]" for every key whose value is None *)
DeleteNone(m) == [k \in {j \in DOMAIN m : m[j] # PyNone} |-> m[k]]

(* rank.keys is the order in which the dicts are iterated, rank.rev the    *)
(* way round the candidates of a choice are                                *)
RECURSIVE visit(_, _, _, _, _, _)
RECURSIVE VisitList(_, _, _, _, _, _, _)
RECURSIVE VisitDict(_, _, _, _, _, _, _, _)

(* the body of both loops: one entry *)
VisitEntry(value, d, maps, answers, offered, rank) ==
    IF Formattable(value)
    THEN Only({[IF r.e # "ok" THEN Visited(value, r.d, r.offered, r.e)
                ELSE Visited(Emptied(IF r.v = None THEN PyNone ELSE Str(r.v)),
                             r.d, r.offered, "ok")
                   EXCEPT !.formats = <<value>>] :
               r \in {Formattable_format(value, d, maps, answers, offered,
                                         rank.rev)}})
    ELSE Only({IF r.e # "ok" THEN r ELSE [r EXCEPT !.s = Emptied(r.s)] :
               r \in {visit(value, d, maps, answers, offered, rank)}})

VisitList(l, i, d, maps, answers, offered, rank) ==
    IF i > Len(l) THEN Visited(RemoveNone(l), d, offered, "ok")
    ELSE Only({[IF r.e # "ok"
                THEN Visited([l EXCEPT ![i] = r.s], r.d, r.offered, r.e)
                ELSE VisitList([l EXCEPT ![i] = r.s], i + 1, r.d, maps, answers,
                               r.offered, rank)
                   EXCEPT !.formats = r.formats \o @] :
               r \in {VisitEntry(l[i], d, maps, answers, offered, rank)}})

VisitDict(m, ks, i, d, maps, answers, offered, rank) ==
    IF i > Len(ks) THEN Visited(DeleteNone(m), d, offered, "ok")
    ELSE Only({[IF r.e # "ok"
                THEN Visited([m EXCEPT ![ks[i]] = r.s], r.d, r.offered, r.e)
                ELSE VisitDict([m EXCEPT ![ks[i]] = r.s], ks, i + 1, r.d, maps,
                               answers, r.offered, rank)
                   EXCEPT !.formats = r.formats \o @] :
               r \in {VisitEntry(m[ks[i]], d, maps, answers, offered, rank)}})

visit(template, d, maps, answers, offered, rank) ==
    IF is_nonstring_sequence(template)
    THEN Only({[r EXCEPT !.s = List(r.s)] :
               r \in {VisitList(template.l, 1, d, maps, answers, offered, rank)}})
    ELSE IF template.t = "dict"
    THEN Only({[r EXCEPT !.s = Dict(r.s)] :
               r \in {VisitDict(template.m,
                                SelectSeq(rank.keys,
                                          LAMBDA k : k \in DOMAIN template.m),
                                1, d, maps, answers, offered, rank)}})
    ELSE Visited(template, d, offered, "AssertionError")

(* State machine: an artifact is written, the environment is set, the      *)
(* artifact is visited.                                                    *)

VT(pat) == StringTemplate(Str(pat), FALSE, "None", TRUE, NoKwargs)

(* the fixtures of tests/test_templates.py TestVisit *)
VisitArtifacts ==
    {EmptyDict,
     Dict([k \in {"a"} |-> VT("{AUTHOR_NAME}")]),
     Dict([k \in {"a"} |-> Dict([j \in {"b"} |-> VT("{AUTHOR_NAME}")])]),
     Dict([k \in {"a"} |-> List(<<VT("{AUTHOR_NAME}"),
                                  Dict([j \in {"b"} |-> VT("x")])>>)]),
     Dict([k \in {"a"} |-> List(<<VT("{AUTHOR_NAME}")>>)]),
     Dict([k \in {"a"} |-> [t |-> "mst",
                            vals |-> {VT("{AUTHOR_NAME}"), VT("x")}]])}

VisitInit ==
    /\ td \in VisitArtifacts
    /\ written = [k \in Keys |-> {}]
    /\ tdLast = NoOp
    /\ nWrites = 0

VisitWriteArgs ==
    {<<[tuple |-> FALSE, ks |-> <<"b">>], Str("{AUTHOR_NAME}")>>,
     <<[tuple |-> FALSE, ks |-> <<"b">>], Str("y")>>,
     <<[tuple |-> FALSE, ks |-> <<"a">>], Str("y")>>,
     <<[tuple |-> FALSE, ks |-> <<"b">>],
       StringTemplate(Str("{AUTHOR_NAME}"), FALSE, "suffix", FALSE, NoKwargs)>>,
     <<[tuple |-> FALSE, ks |-> <<"b">>], Mapping(<<>>)>>,
     <<[tuple |-> FALSE, ks |-> <<"b">>], List(<<Str("{PYENV_ROOT}"), Str("y")>>)>>,
     <<[tuple |-> FALSE, ks |-> <<"b">>], Transform(Str("x"), "identity")>>}

VisitAnswers == {<<>>, <<"">>, <<"w">>, <<"", "x">>, <<"w", "w">>}

(* visit(config) *)
Visit(answers, rank) ==
    /\ nWrites < MaxWrites
    /\ LET r == visit(td, envData, envSources, answers, <<>>, rank)
       IN  /\ td' = r.s
           /\ envData' = r.d
           /\ tdLast' = [op |-> "visit", keys |-> NoOp.keys, value |-> NoOp.value,
                         pre |-> td, e |-> r.e, rep |-> FALSE,
                         formats |-> r.formats]
    /\ nWrites' = nWrites + 1
    /\ UNCHANGED <<written, envSources, envLast, nFeeds, nGets>>

(* config[key].format() on a choice: the menu it shows is recorded *)
FormatChoice(key, answers, rev) ==
    /\ nWrites < MaxWrites
    /\ key \in DOMAIN td.m
    /\ td.m[key].t = "mst"
    /\ LET r == MultiStringTemplate_format(td.m[key], envData, envSources,
                                           answers, <<>>, rev)
       IN  /\ envData' = r.d
           /\ tdLast' = [op |-> "format", keys |-> [tuple |-> FALSE, ks |-> <<key>>],
                         value |-> td.m[key], pre |-> td, e |-> r.e, rep |-> FALSE,
                         menu |-> IF r.e = "ok" THEN r.menu ELSE <<>>,
                         v |-> r.v]
    /\ nWrites' = nWrites + 1
    /\ UNCHANGED <<td, written, envSources, envLast, nFeeds, nGets>>

ChoiceAnswers == {<<>>, <<"x">>, <<"x", "x">>, <<"w", "x">>, <<"", "x">>}

VisitNext ==
    \/ \E w \in VisitWriteArgs : SetItem(w[1], w[2]) /\ UNCHANGED envVars
    \/ \E key \in Keys, answers \in ChoiceAnswers, rev \in BOOLEAN :
           FormatChoice(key, answers, rev)
    \/ \E a \in SetArgs : EnvSet(a[1], a[2]) /\ UNCHANGED tdVars
    \/ \E answers \in VisitAnswers, keys \in Orders(Keys), rev \in BOOLEAN :
           Visit(answers, [keys |-> keys, rev |-> rev])

----------------------------------------------------------------------------
(* Choices: MultiStringTemplate (ChoiceTemplate in the tests) written as a *)
(* value, stacked by conflicting writes, and the menu its format shows.    *)

(* ChoiceTemplate(a, b) of two bare strings *)
ChoiceTemplate(a, b) == MultiStringTemplate(Str(a), Str(b)).d

(* MultiStringTemplate.from_items(a, b, c) *)
from_items(a, b, c) ==
    MultiStringTemplate(Str(c), MultiStringTemplate(Str(a), Str(b)).d).d

ChoiceWriteArgs ==
    {[tuple |-> FALSE, ks |-> <<k>>] : k \in Keys}
    \X {Str("x"), Str("y"), Str("w"), ChoiceTemplate("x", "y"),
        from_items("x", "y", "w")}

(* The list of choices MultiStringTemplate.format builds for the value     *)
(* under the key just written: the candidates in the order the set         *)
(* self._values is iterated, which the hashes decide.                      *)
Menu(order) ==
    /\ tdLast.op = "setitem" /\ tdLast.e = "ok"
    /\ LET key == tdLast.keys.ks[1]
       IN  /\ td.m[key].t = "mst"
           /\ order \in Orders(td.m[key].vals)
    /\ tdLast' = [op |-> "menu", keys |-> tdLast.keys, value |-> tdLast.value,
                  pre |-> tdLast.pre, e |-> "ok", rep |-> FALSE, menu |-> order]
    /\ UNCHANGED <<td, written, nWrites>>

ChoiceNext ==
    \/ \E w \in ChoiceWriteArgs : SetItem(w[1], w[2])
    \/ \E k \in Keys : \E order \in Orders(IF k \in DOMAIN td.m /\ td.m[k].t = "mst"
                                           THEN td.m[k].vals ELSE {}) :
           Menu(order)

----------------------------------------------------------------------------
(* _Structure of incipyt/project/structure.py.  heap holds the containers  *)
(* by reference; configurations is self._configurations, the pairs         *)
(* (path of the dumper, container) in insertion order; proxies are the     *)
(* TemplateDict and TemplateList handed out since the last clear, each     *)
(* with the container it wraps; dumped is what dump_in was given.          *)

Registered(confs, path) == {i \in DOMAIN confs : confs[i].path = path}

Got(heap_, confs, obj, e) == [heap |-> heap_, confs |-> confs, obj |-> obj, e |-> e]

(* a request that registers a new container whatever the structure holds *)
Structure_get_config_fresh(heap_, confs, path, empty) ==
    LET obj == Len(heap_) + 1
    IN  Got(Append(heap_, empty),
            Append(SelectSeq(confs, LAMBDA c : c.path # path),
                   [path |-> path, obj |-> obj]),
            obj, "ok")

(* _Structure.get_config_dict (empty = {}) and get_config_list (empty =    *)
(* []): dumpers are equal when their paths are.                            *)
Structure_get_config(heap_, confs, path, empty) ==
    LET known == Registered(confs, path)
        obj == IF known = {} THEN Len(heap_) + 1
               ELSE confs[CHOOSE i \in known : TRUE].obj
        heap1 == IF known = {} THEN Append(heap_, empty) ELSE heap_
        confs1 == IF known = {} THEN Append(confs, [path |-> path, obj |-> obj])
                  ELSE confs
    IN  IF heap1[obj].t # empty.t THEN Got(heap1, confs1, 0, "TypeError")
        ELSE Got(heap1, confs1, obj, "ok")

Committed(heap_, d, offered, written_, resolved, e) ==
    [heap |-> heap_, d |-> d, offered |-> offered, dumped |-> written_,
     resolved |-> resolved, e |-> e, formats |-> <<>>]

CommitRank == [keys |-> SetToSeq(Keys), rev |-> FALSE]

(* the second loop of commit: config_root.dump_in(config) *)
RECURSIVE DumpAll(_, _, _)
DumpAll(heap_, confs, i) ==
    IF i > Len(confs) THEN <<>>
    ELSE <<[path |-> confs[i].path, config |-> heap_[confs[i].obj]]>>
         \o DumpAll(heap_, confs, i + 1)

(* a commit that writes each artifact as soon as it is resolved *)
RECURSIVE Structure_commit_interleaved(_, _, _, _, _, _, _)
Structure_commit_interleaved(heap_, confs, i, d, maps, answers, offered) ==
    IF i > Len(confs) THEN Committed(heap_, d, offered, <<>>, i - 1, "ok")
    ELSE Only({IF r.e # "ok"
               THEN [Committed([heap_ EXCEPT ![confs[i].obj] = r.s], r.d,
                               r.offered, <<>>, i - 1, r.e)
                        EXCEPT !.formats = r.formats]
               ELSE Only({[rest EXCEPT !.dumped =
                               <<[path |-> confs[i].path, config |-> r.s]>> \o @,
                                       !.formats = r.formats \o @] :
                          rest \in {Structure_commit_interleaved(
                                        [heap_ EXCEPT ![confs[i].obj] = r.s],
                                        confs, i + 1, r.d, maps, answers,
                                        r.offered)}}) :
               r \in {visit(heap_[confs[i].obj], d, maps, answers, offered,
                            CommitRank)}})

(* _Structure.commit: visit(config) for every configuration, then dump_in  *)
(* for every configuration.                                                *)
RECURSIVE Structure_commit(_, _, _, _, _, _, _)
Structure_commit(heap_, confs, i, d, maps, answers, offered) ==
    IF i > Len(confs)
    THEN Committed(heap_, d, offered, DumpAll(heap_, confs, 1), i - 1, "ok")
    ELSE Only({[IF r.e # "ok"
                THEN Committed([heap_ EXCEPT ![confs[i].obj] = r.s], r.d,
                               r.offered, <<>>, i - 1, r.e)
                ELSE Structure_commit([heap_ EXCEPT ![confs[i].obj] = r.s], confs,
                                      i + 1, r.d, maps, answers, r.offered)
                   EXCEPT !.formats = r.formats \o @] :
               r \in {visit(heap_[confs[i].obj], d, maps, answers, offered,
                            CommitRank)}})

(* State machine of the structure singleton *)

StNoOp ==
    [op |-> "none", path |-> "", obj |-> 0, e |-> "ok", resolved |-> 0,
     pre |-> [heap |-> <<>>, confs |-> <<>>, dumped |-> <<>>],
     formats |-> <<>>, offered |-> <<>>, env |-> <<>>]

StPre == [heap |-> heap, confs |-> configurations, dumped |-> dumped]

(* structure = _Structure(): __init__ calls clear *)
StructInit ==
    /\ heap = <<>>
    /\ configurations = <<>>
    /\ proxies = <<>>
    /\ dumped = <<>>
    /\ stLast = StNoOp
    /\ nStructOps = 0

(* structure.clear(): the proxies of the run before are dropped *)
StructClear ==
    /\ nStructOps < MaxStructOps
    /\ configurations # <<>>
    /\ heap' = <<>>
    /\ configurations' = <<>>
    /\ proxies' = <<>>
    /\ stLast' = [StNoOp EXCEPT !.op = "clear"]
    /\ nStructOps' = nStructOps + 1
    /\ UNCHANGED <<dumped, envVars>>

(* structure.get_config_dict(Toml(path)), get_config_list(TextFile(path)) *)
GetConfig(path, empty) ==
    /\ nStructOps < MaxStructOps
    /\ LET r == Structure_get_config(heap, configurations, path, empty)
       IN  /\ heap' = r.heap
           /\ configurations' = r.confs
           /\ proxies' = IF r.e = "ok"
                         THEN Append(proxies, [path |-> path, obj |-> r.obj])
                         ELSE proxies
           /\ stLast' = [StNoOp EXCEPT !.op = "get_config", !.path = path,
                                       !.obj = r.obj, !.e = r.e, !.pre = StPre]
    /\ nStructOps' = nStructOps + 1
    /\ UNCHANGED <<dumped, envVars>>

(* proxy[key] = value on a TemplateDict, proxy.append(value) on a          *)
(* TemplateList: both change the container the proxy wraps, in place.      *)
ProxyWrite(p, value) ==
    /\ nStructOps < MaxStructOps
    /\ p \in DOMAIN proxies
    /\ LET obj == proxies[p].obj
           r == IF heap[obj].t = "dict"
                THEN TD_setitem(heap[obj], [tuple |-> FALSE, ks |-> <<"a">>], value)
                ELSE TL_append(heap[obj], value)
       IN  /\ heap' = [heap EXCEPT ![obj] = r.d]
           /\ stLast' = [StNoOp EXCEPT !.op = "write", !.path = proxies[p].path,
                                       !.obj = obj, !.e = r.e, !.pre = StPre]
    /\ nStructOps' = nStructOps + 1
    /\ UNCHANGED <<configurations, proxies, dumped, envVars>>

(* structure.commit() *)
Commit(answers) ==
    /\ nStructOps < MaxStructOps
    /\ configurations # <<>>
    /\ LET r == Structure_commit(heap, configurations, 1, envData, envSources,
                                 answers, <<>>)
       IN  /\ heap' = r.heap
           /\ envData' = r.d
           /\ dumped' = dumped \o r.dumped
           /\ stLast' = [StNoOp EXCEPT !.op = "commit", !.e = r.e,
                                       !.resolved = r.resolved, !.pre = StPre,
                                       !.formats = r.formats,
                                       !.offered = r.offered, !.env = envData]
    /\ nStructOps' = nStructOps + 1
    /\ UNCHANGED <<configurations, proxies, envSources, envLast, nFeeds, nGets>>

(* Inputs *)

Paths == {"pyproject.toml", "README.md"}

StructWriteArgs ==
    {Str("{AUTHOR_NAME}"), Str("y"), Transform(Str("x"), "identity"),
     Mapping(<<Item("b", Str("{AUTHOR_NAME}"))>>)}

CommitAnswers == {<<>>, <<"">>, <<"w">>, <<"w", "w">>}

StructNext ==
    \/ StructClear
    \/ \E path \in Paths : GetConfig(path, EmptyDict)
    \/ \E path \in Paths : GetConfig(path, List(<<>>))
    \/ \E p \in DOMAIN proxies, value \in StructWriteArgs : ProxyWrite(p, value)
    \/ \E answers \in CommitAnswers : Commit(answers)

----------------------------------------------------------------------------
(* Deferred strings with sanitizers.version, formatted and visited: the    *)
(* "version" entries the tools write (tools/setuptools.py, tools/poetry.py) *)

VersionTemplate(value_error) ==
    StringTemplate(Str("{PACKAGE_VERSION}"), FALSE, "version", value_error, NoKwargs)

VersionArtifacts ==
    {Dict([k \in {"a"} |-> VersionTemplate(TRUE)]),
     Dict([k \in {"a", "b"} |->
              IF k = "a" THEN VersionTemplate(FALSE) ELSE VT("x")])}

SanitizeInit ==
    /\ td \in VersionArtifacts
    /\ written = [k \in Keys |-> {}]
    /\ tdLast = NoOp
    /\ nWrites = 0

VersionSetArgs == {"w", "1.0", ""}

VersionAnswers == {<<>>, <<"">>, <<"w">>, <<"1.0">>}

SanitizeNext ==
    \/ \E value \in VersionSetArgs :
           EnvSet("PACKAGE_VERSION", value) /\ UNCHANGED tdVars
    \/ \E value_error \in BOOLEAN, answers \in VersionAnswers :
           EnvFormat(VersionTemplate(value_error), <<"PACKAGE_VERSION">>, answers)
           /\ UNCHANGED tdVars
    \/ \E answers \in VersionAnswers, keys \in Orders(Keys) :
           Visit(answers, [keys |-> keys, rev |-> FALSE])

----------------------------------------------------------------------------
(* The override sources of _Environment fed for one name from several      *)
(* sides: feed_environ, feed_osenviron/feed_cli/feed_default, inject.      *)

PriorityInjectArgs == {<<Required, "w">>, <<"LICENSE", "w">>}

PriorityFeedArgs ==
    {<<"osenviron_confirmed", "LICENSE", ValueOf("osenviron_confirmed")>>,
     <<"cli", Required, ValueOf("cli")>>,
     <<"default_confirmed", Required, ValueOf("default_confirmed")>>}

PriorityGetArgs == {Required, "LICENSE"} \X {<<>>, <<"w">>}

PriorityNext ==
    \/ \E a \in PriorityInjectArgs : Inject(a[1], a[2])
    \/ \E a \in PriorityFeedArgs : Feed(a[1], a[2], a[3])
    \/ \E a \in FeedEnvironArgs :
           FeedEnviron(a.config_options, a.cli_options, a.osenviron)
    \/ \E a \in PriorityGetArgs : EnvGet(a[1], a[2])

----------------------------------------------------------------------------
(* The registries of variables: metadata of incipyt/variables.py, filled   *)
(* by _EnvMetadata, and variables of incipyt/project/meta_variables.py,    *)
(* filled by Variable.  An entry of metadata is [default, do_not_prompt,   *)
(* required], an entry of variables is a Variable record.                  *)

EnvMetadata(default, do_not_prompt, required) ==
    [default |-> default, do_not_prompt |-> do_not_prompt, required |-> required]

(* _EnvMetadata.__post_init__ *)
EnvMetadata_post_init(md, name, entry) ==
    IF name \in DOMAIN md THEN Raise(md, "ValueError")
    ELSE Ok(Put(md, name, entry))

(* variables.py lines 82-86: the OS environment is mirrored at import *)
RECURSIVE MirrorOsEnviron(_, _, _)
MirrorOsEnviron(md, osenviron, i) ==
    IF i > Len(osenviron) THEN md
    ELSE LET var_name == osenviron[i][1]
             var_value == osenviron[i][2]
         IN  MirrorOsEnviron(
                 IF var_name \notin DOMAIN md
                 THEN EnvMetadata_post_init(md, var_name,
                                            EnvMetadata(var_value, FALSE, FALSE)).d
                 ELSE [md EXCEPT ![var_name].default = var_value],
                 osenviron, i + 1)

(* metadata at the end of the import of variables.py, for the entries that *)
(* differ in default, do_not_prompt or required                            *)
MetadataAtImport(osenviron) ==
    MirrorOsEnviron(
        [n \in {"AUTHOR_NAME", "LICENSE", "PACKAGE_VERSION", "SUMMARY_DESCRIPTION"} |->
            CASE n = "AUTHOR_NAME" -> EnvMetadata("", FALSE, FALSE)
              [] n = "LICENSE" -> EnvMetadata("Copyright", TRUE, FALSE)
              [] n = "PACKAGE_VERSION" -> EnvMetadata("0.0.0", FALSE, FALSE)
              [] n = "SUMMARY_DESCRIPTION" -> EnvMetadata("", FALSE, TRUE)],
        osenviron, 1)

(* Variable.__init__: the setter of required raises before the entry is    *)
(* stored; otherwise the entry is stored under its name                    *)
Variable_init(vs, name, type, default, prompt, required) ==
    IF ~Falsy(default) /\ required THEN Raise(vs, "ValueError")
    ELSE Ok(Put(vs, name, Variable(type, default, prompt, required)))

CatNoOp == [op |-> "none", name |-> "", e |-> "ok", pre |-> <<>>]

(* both modules have been imported, under an empty OS environment *)
CatInit ==
    /\ metadata = MetadataAtImport(<<>>)
    /\ catalog = variables
    /\ catLast = CatNoOp
    /\ nRegs = 0

CatOsEnvirons == {<<>>, <<<<"AUTHOR_NAME", "al">>>>, <<<<"PYENV_ROOT", "/p">>>>}

(* both modules have been imported *)
CatInitWith ==
    /\ \E osenviron \in CatOsEnvirons : metadata = MetadataAtImport(osenviron)
    /\ catalog = variables
    /\ catLast = CatNoOp
    /\ nRegs = 0

(* _EnvMetadata(name, default=..., do_not_prompt=..., required=...) *)
NewEnvMetadata(name, default, do_not_prompt, required) ==
    /\ nRegs < MaxRegs
    /\ LET r == EnvMetadata_post_init(metadata, name,
                    EnvMetadata(default, do_not_prompt, required))
       IN  /\ metadata' = r.d
           /\ catLast' = [op |-> "_EnvMetadata", name |-> name, e |-> r.e,
                          pre |-> metadata]
    /\ nRegs' = nRegs + 1
    /\ UNCHANGED catalog

(* Variable(name, default=..., prompt=..., required=...) *)
NewVariable(name, default, prompt, required) ==
    /\ nRegs < MaxRegs
    /\ LET r == Variable_init(catalog, name, "str", default, prompt, required)
       IN  /\ catalog' = r.d
           /\ catLast' = [op |-> "Variable", name |-> name, e |-> r.e,
                          pre |-> catalog]
    /\ nRegs' = nRegs + 1
    /\ UNCHANGED metadata

CatNames == {"AUTHOR_NAME", "LICENSE", "PYENV_ROOT"}

CatDefaults == {"", "x"}

CatNext ==
    \/ \E name \in CatNames, default \in CatDefaults, flag \in BOOLEAN,
          required \in BOOLEAN : NewEnvMetadata(name, default, flag, required)
    \/ \E name \in CatNames, default \in CatDefaults, flag \in BOOLEAN,
          required \in BOOLEAN : NewVariable(name, default, flag, required)

----------------------------------------------------------------------------
(* Specifications: one per component, the other components stay idle *)

Init == TDInit /\ UDInit /\ EnvInit /\ EnvironIdle /\ StructInit /\ CatInit

Next == TDNext /\ UNCHANGED <<udVars, envVars, environVars, structVars, catVars>>

Spec == Init /\ [][Next]_vars

IdleTemplates ==
    td = EmptyDict /\ tdLast = NoOp /\ nWrites = 0 /\ written = [k \in Keys |-> {}]

InitUtils == UDInit /\ IdleTemplates /\ EnvInit /\ EnvironIdle /\ StructInit /\ CatInit

NextUtils == UDNext /\ UNCHANGED <<tdVars, envVars, environVars, structVars, catVars>>

InitEnv == EnvInit /\ IdleTemplates /\ UDInit /\ EnvironIdle /\ StructInit /\ CatInit

NextEnv == EnvNext /\ UNCHANGED <<tdVars, udVars, environVars, structVars, catVars>>

SpecEnv == InitEnv /\ [][NextEnv]_vars

NextRender == RenderNext /\ UNCHANGED <<tdVars, udVars, environVars, structVars, catVars>>

SpecRender == InitEnv /\ [][NextRender]_vars

InitVisit == VisitInit /\ EnvInit /\ UDInit /\ EnvironIdle /\ StructInit /\ CatInit

NextVisit == VisitNext /\ UNCHANGED <<udVars, environVars, structVars, catVars>>

SpecVisit == InitVisit /\ [][NextVisit]_vars

NextUpdate == UpdateNext /\ UNCHANGED <<udVars, envVars, environVars, structVars, catVars>>

SpecUpdate == Init /\ [][NextUpdate]_vars

NextChoice == ChoiceNext /\ UNCHANGED <<udVars, envVars, environVars, structVars, catVars>>

SpecChoice == Init /\ [][NextChoice]_vars

InitEnviron == EnvironInit /\ IdleTemplates /\ UDInit /\ EnvInit /\ StructInit /\ CatInit

NextEnviron == EnvironNext /\ UNCHANGED <<tdVars, udVars, envVars, structVars, catVars>>

SpecEnviron == InitEnviron /\ [][NextEnviron]_vars

SpecUtils == InitUtils /\ [][NextUtils]_vars

InitStructure == StructInit /\ EnvInit /\ IdleTemplates /\ UDInit /\ EnvironIdle /\ CatInit

NextStructure == StructNext /\ UNCHANGED <<tdVars, udVars, environVars, catVars>>

SpecStructure == InitStructure /\ [][NextStructure]_vars

NextPriority ==
    PriorityNext /\ UNCHANGED <<tdVars, udVars, environVars, structVars, catVars>>

SpecPriority == InitEnv /\ [][NextPriority]_vars

InitSanitize ==
    SanitizeInit /\ EnvInit /\ UDInit /\ EnvironIdle /\ StructInit /\ CatInit

NextSanitize == SanitizeNext /\ UNCHANGED <<udVars, environVars, structVars, catVars>>

SpecSanitize == InitSanitize /\ [][NextSanitize]_vars

InitCatalog ==
    CatInitWith /\ IdleTemplates /\ UDInit /\ EnvInit /\ EnvironIdle /\ StructInit

NextCatalog ==
    CatNext /\ UNCHANGED <<tdVars, udVars, envVars, environVars, structVars>>

SpecCatalog == InitCatalog /\ [][NextCatalog]_vars

----------------------------------------------------------------------------
(* Properties of TemplateDict.__setitem__ (templates.py) *)

RECURSIVE HasPath(_, _)
HasPath(obj, ks) ==
    \/ ks = <<>>
    \/ /\ obj.t = "dict"
       /\ Head(ks) \in DOMAIN obj.m
       /\ HasPath(obj.m[Head(ks)], Tail(ks))

RECURSIVE At(_, _)
At(obj, ks) == IF ks = <<>> THEN obj ELSE At(obj.m[Head(ks)], Tail(ks))

IsScalar(obj) == obj.t \in {"st", "mst", "str"}

(* the candidates an object stands for once it is part of a choice: a bare *)
(* str is wrapped by the default constructor                               *)
Wrapped(obj) ==
    IF obj.t = "str" THEN StringTemplate(obj, FALSE, "None", TRUE, NoKwargs) ELSE obj

Candidates(obj) == IF obj.t = "mst" THEN obj.vals ELSE {Wrapped(obj)}

(* the last operation wrote a scalar to a key (or key path) that held a   *)
(* scalar before                                                           *)
ScalarOverScalar ==
    /\ tdLast.op = "setitem"
    /\ IsScalarArg(tdLast.value)
    /\ HasPath(tdLast.pre, tdLast.keys.ks)
    /\ IsScalar(At(tdLast.pre, tdLast.keys.ks))

(* C1: a scalar write to a key that holds a different scalar stores a      *)
(* MultiStringTemplate whose candidates are exactly the candidates held    *)
(* before plus the new one; every scalar ever written to a top-level key   *)
(* is still a candidate of what the key holds (a bare str as itself or     *)
(* wrapped in a StringTemplate).  StringTemplates that differ in any one   *)
(* of pattern, sanitizer, confirmed, value_error, kwargs are different.    *)
C1_ConflictEscalation ==
    /\ (ScalarOverScalar /\ Stored(tdLast.value) # At(tdLast.pre, tdLast.keys.ks))
          => /\ tdLast.e = "ok"
             /\ At(td, tdLast.keys.ks).t = "mst"
             /\ At(td, tdLast.keys.ks).vals =
                    Candidates(At(tdLast.pre, tdLast.keys.ks)) \cup {Stored(tdLast.value)}
    /\ \A k \in Keys :
          written[k] # {} =>
             /\ k \in DOMAIN td.m
             /\ \A w \in written[k] :
                   \/ td.m[k] = w
                   \/ td.m[k].t = "mst" /\ (w \in td.m[k].vals \/ Wrapped(w) \in td.m[k].vals)
             /\ Cardinality({Wrapped(w) : w \in written[k]}) >= 2 => td.m[k].t = "mst"

(* a third candidate joined a two-candidate choice, and a template that    *)
(* differs from a held one by its sanitizer only was kept next to it       *)
C1_Witness ==
    /\ ScalarOverScalar
    /\ tdLast.e = "ok"
    /\ At(tdLast.pre, tdLast.keys.ks).t = "mst"
    /\ Cardinality(At(td, tdLast.keys.ks).vals) = 3
    /\ {ST("x"), StringTemplate(Str("x"), FALSE, "slugify", TRUE, NoKwargs)}
          \subseteq At(td, tdLast.keys.ks).vals

(* C2: writing to a scalar key a value equal to the one it holds leaves    *)
(* the stored value as it was                                              *)
C2_EqualWriteIsNoOp ==
    (ScalarOverScalar /\ Stored(tdLast.value) = At(tdLast.pre, tdLast.keys.ks))
       => At(td, tdLast.keys.ks) = At(tdLast.pre, tdLast.keys.ks)

RECURSIVE NoEqualEntries(_)
NoEqualEntries(obj) ==
    CASE obj.t = "list" ->
           /\ \A i, j \in 1..Len(obj.l) : i # j => obj.l[i] # obj.l[j]
           /\ \A i \in 1..Len(obj.l) : NoEqualEntries(obj.l[i])
      [] obj.t = "dict" -> \A k \in DOMAIN obj.m : NoEqualEntries(obj.m[k])
      [] OTHER -> TRUE

(* C3: repeating the write A[k] = [v] leaves the list as the first write   *)
(* left it, and no list of the structure ever holds two equal entries      *)
C3_IdempotentListAppend ==
    /\ (tdLast.op = "setitem" /\ tdLast.rep /\ tdLast.e = "ok"
           /\ is_nonstring_sequence(tdLast.value)) => td = tdLast.pre
    /\ NoEqualEntries(td)

IsMappingArg(value) == IsMapping(_get_transform(value, "StringTemplate").v)

IsSequenceArg(value) == is_nonstring_sequence(_get_transform(value, "StringTemplate").v)

(* every key path of a structure that leads to a dict or a list *)
RECURSIVE ContainerPaths(_)
ContainerPaths(obj) ==
    IF obj.t # "dict" THEN {}
    ELSE UNION {
            (IF obj.m[k].t \in {"dict", "list"} THEN {<<k>>} ELSE {})
            \cup {<<k>> \o p : p \in ContainerPaths(obj.m[k])} : k \in DOMAIN obj.m}

(* the claim of C4 about one operation: last is its record, now the       *)
(* structure it left                                                       *)
TypeInvariance(last, now) ==
    /\ (/\ last.op = "setitem"
        /\ HasPath(last.pre, last.keys.ks)
        /\ \/ At(last.pre, last.keys.ks).t = "list" /\ IsMappingArg(last.value)
           \/ At(last.pre, last.keys.ks).t = "dict" /\ IsSequenceArg(last.value))
          => last.e # "ok"
    /\ \A p \in ContainerPaths(last.pre) :
          HasPath(now, p) /\ At(now, p).t = At(last.pre, p).t

(* C4 (templates.py): a mapping written to a key holding a list, or a      *)
(* sequence written to a key holding a mapping, raises, empty or not, and  *)
(* no operation changes a key from mapping to anything else or from        *)
(* sequence to anything else                                               *)
C4_TypeInvarianceTemplates == TypeInvariance(tdLast, td)

C4_WitnessTemplates ==
    /\ tdLast.op = "setitem"
    /\ HasPath(tdLast.pre, tdLast.keys.ks)
    /\ At(tdLast.pre, tdLast.keys.ks).t = "list"
    /\ tdLast.value = Mapping(<<>>)
    /\ tdLast.e = "AssertionError"

(* C4 (utils.py): the same statement about the TemplateDict of utils.py   *)
C4_TypeInvariance == TypeInvariance(udLast, ud)

(* the by-hand procedure of C5: create each missing level with a          *)
(* single-key write of an empty mapping, step into it with a single-key    *)
(* read, assign at the leaf with a single-key write                        *)
RECURSIVE ByHand(_, _, _)
ByHand(obj, ks, value) ==
    IF Len(ks) = 1 THEN ProxySetItem(obj, ks[1], value)
    ELSE LET made == IF obj.t = "dict" /\ Head(ks) \in DOMAIN obj.m THEN Ok(obj)
                     ELSE ProxySetItem(obj, Head(ks), Mapping(<<>>))
         IN  IF made.e # "ok" THEN made
             ELSE LET r == ByHand(made.d.m[Head(ks)], Tail(ks), value)
                  IN  [d |-> Dict(Put(made.d.m, Head(ks), r.d)), e |-> r.e]

(* C5: proxy[k1, ..., kn] = x leaves the structure that the by-hand       *)
(* procedure leaves, and raises exactly when the by-hand procedure raises  *)
C5_ShorthandEquivalence ==
    (tdLast.op = "setitem" /\ tdLast.keys.tuple) =>
        LET r == ByHand(tdLast.pre, tdLast.keys.ks, tdLast.value)
        IN  td = r.d /\ (tdLast.e = "ok" <=> r.e = "ok")

(* a tuple of two keys or more was written where the intermediate level    *)
(* was missing                                                             *)
C5_Witness ==
    /\ tdLast.op = "setitem" /\ tdLast.keys.tuple /\ tdLast.e = "ok"
    /\ Len(tdLast.keys.ks) >= 2
    /\ ~HasPath(tdLast.pre, <<tdLast.keys.ks[1]>>)
    /\ HasPath(td, tdLast.keys.ks)

----------------------------------------------------------------------------
(* Properties of the environment stores *)

(* The last operation of _Environ left the store as it was *)
EnvironUntouched ==
    /\ environData = environLast.pre.data
    /\ environConfirmed = environLast.pre.confirmed

(* The string a template renders from the values of a store, None when a   *)
(* value is empty and the template does not tolerate it                    *)
Rendering(template, store) ==
    LET names == FieldNames(Parse(template.pat.v))
    IN  IF template.verr /\ \E n \in names : Falsy(store[n]) THEN None
        ELSE Substitute(Parse(template.pat.v),
                        [n \in names |-> Sanitize(template.san, n, store[n])], 1)

(* A read of a name that a read has returned before *)
RepeatedGet ==
    /\ environLast.op = "get"
    /\ environLast.key \in environLast.pre.resolved

(* A format of a template whose variables have all been returned by reads *)
ResolvedFormat ==
    /\ environLast.op = "format"
    /\ FieldNames(Parse(environLast.arg.pat.v)) # {}
    /\ FieldNames(Parse(environLast.arg.pat.v)) \subseteq environLast.pre.resolved

(* The last operation is one the contract lets change a resolved name n *)
ExplicitChange(n) ==
    \/ environLast.op = "clear"
    \/ /\ environLast.op = "set"
       /\ environLast.key = n
       /\ environLast.arg.t = "EnvValue"
       /\ environLast.arg.update

(* C6 (part): a read of a resolved name returns the stored value without   *)
(* prompting, and no operation but an update or a clear changes the value  *)
(* of a resolved name.                                                     *)
C6_GetStable ==
    /\ RepeatedGet =>
           /\ environLast.e = "ok"
           /\ environLast.offered = <<>>
           /\ environLast.v = environLast.pre.data[environLast.key]
           /\ EnvironUntouched
    /\ \A n \in environLast.pre.resolved :
           \/ ExplicitChange(n)
           \/ /\ n \in DOMAIN environData
              /\ environData[n] = environLast.pre.data[n]

(* C6 (part): formatting a template whose variables are all resolved       *)
(* succeeds, prompts nothing and gives the rendering of the stored values. *)
C6_FormatStable ==
    ResolvedFormat =>
        /\ environLast.e = "ok"
        /\ environLast.offered = <<>>
        /\ environLast.v = Rendering(environLast.arg, environLast.pre.data)

(* C6: once a read has returned a value for a name, every later read       *)
(* returns the same value and prompts nothing, whatever happens in between *)
(* except an update or a clear; so a deferred string whose variables are   *)
(* all resolved formats to the same string on every call, unprompted.      *)
C6_StableOnceResolved == C6_GetStable /\ C6_FormatStable

(* C6 (part), for _Environment: a read of a name held in data returns it   *)
(* without prompting and leaves it in place.                               *)
C6_GetStableEnvironment ==
    (envLast.op = "get" /\ envLast.hit) =>
        /\ envLast.e = "ok"
        /\ envLast.offered = <<>>
        /\ envLast.v = envData[envLast.name]

(* C6 (part), for _Environment: no inject, suggest, feed, read or write    *)
(* changes or removes a value held in data; clear and feed_environ reset.  *)
C6_ValueKeptEnvironment ==
    [][\A n \in DOMAIN envData :
           \/ envLast'.op \in {"clear", "feed_environ"}
           \/ n \in DOMAIN envData' /\ envData'[n] = envData[n]]_vars

ResolutionOrder ==
    <<"cli", "osenviron_confirmed", "tool_confirmed", "default_confirmed",
      "config", "tool_prompt", "osenviron_prompt", "default_prompt">>

(* A source has a value to give for a name: it holds the name, and a       *)
(* suggestion source does not hold the empty string for a required name.   *)
HasValue(s, n) ==
    /\ n \in DOMAIN envSources[s]
    /\ ~(s \in PromptSources /\ variables[n].required /\ envSources[s][n] = "")

FirstWithValue(n) ==
    LET I == {i \in 1..Len(ResolutionOrder) : HasValue(ResolutionOrder[i], n)}
    IN  IF I = {} THEN "prompt"
        ELSE ResolutionOrder[CHOOSE i \in I : \A j \in I : i <= j]

(* The first read of a catalogued name, answered *)
FirstGet ==
    /\ envLast.op = "get"
    /\ ~envLast.hit
    /\ envLast.e = "ok"
    /\ envLast.name \in DOMAIN variables

(* C8: the first read of an unresolved name takes its value from the first *)
(* source, in the documented order, that has one: as it is from a          *)
(* confirmed source, as the default of the prompt from a suggestion        *)
(* source; the explicit prompt comes only when no source has a value.      *)
C8_ResolutionOrder ==
    FirstGet =>
        LET s == FirstWithValue(envLast.name)
        IN  /\ envLast.source = s
            /\ s \in ConfirmedSources => envLast.v = envSources[s][envLast.name]
            /\ s \in PromptSources =>
                   /\ envLast.offered # <<>>
                   /\ envLast.offered[Len(envLast.offered)] = envSources[s][envLast.name]
            /\ s = "prompt" <=> \A t \in ConfirmedSources \cup PromptSources :
                                    ~HasValue(t, envLast.name)

C8_Witness ==
    /\ FirstGet
    /\ envLast.name = Required
    /\ HasValue("config", Required)
    /\ HasValue("default_prompt", Required)
    /\ envLast.source = "config"
    /\ envLast.offered = <<"v_config">>

(* C9: a value of a confirmed source is returned as it is without a        *)
(* prompt; a value of a suggestion source is shown once as the default of  *)
(* a prompt and what is returned and cached is the answer; a read that     *)
(* fails caches nothing.                                                   *)
C9_ConfirmBeforeUse ==
    /\ FirstGet =>
           /\ envLast.source \in ConfirmedSources =>
                  /\ envLast.offered = <<>>
                  /\ envLast.v = envSources[envLast.source][envLast.name]
           /\ envLast.source \in PromptSources =>
                  /\ envLast.offered = <<envSources[envLast.source][envLast.name]>>
                  /\ envLast.v = IF envLast.answers[1] = "" THEN envLast.offered[1]
                                 ELSE envLast.answers[1]
           /\ envData[envLast.name] = envLast.v
    /\ (envLast.op = "get" /\ ~envLast.hit /\ envLast.e # "ok") =>
           envLast.name \notin DOMAIN envData

C9_Witness ==
    /\ FirstGet
    /\ envLast.source = "osenviron_prompt"
    /\ envLast.offered = <<"v_osenviron_prompt">>
    /\ envLast.answers = <<"w">>
    /\ envData[envLast.name] = "w"

(* A required name no source has a value for *)
RequiredWithoutDefault(n) ==
    /\ n \in DOMAIN variables
    /\ variables[n].required
    /\ \A s \in ConfirmedSources \cup PromptSources : ~HasValue(s, n)

(* C10: for a required name with no default in any source, a read prompts  *)
(* as long as the answers are empty and returns the first answer that is   *)
(* not: the answers "", "", "hello" are all consumed and "hello" returned; *)
(* no empty value is returned or cached.                                   *)
C10_RequiredReprompt ==
    (envLast.op = "get" /\ ~envLast.hit /\ RequiredWithoutDefault(envLast.name)) =>
        LET n == Len(envLast.offered)
        IN  IF envLast.e = "ok"
            THEN /\ n >= 1
                 /\ \A i \in 1..(n - 1) : envLast.answers[i] = ""
                 /\ envLast.answers[n] # ""
                 /\ envLast.v = envLast.answers[n]
                 /\ envData[envLast.name] = envLast.v
                 /\ ~Falsy(envLast.v)
                 /\ envLast.answers = <<"", "", "hello">> =>
                        (n = 3 /\ envLast.v = "hello")
            ELSE /\ envLast.e = "Abort"
                 /\ \A i \in 1..Len(envLast.answers) : envLast.answers[i] = ""
                 /\ envLast.name \notin DOMAIN envData

C10_Witness ==
    /\ envLast.op = "get"
    /\ ~envLast.hit
    /\ RequiredWithoutDefault(envLast.name)
    /\ envLast.answers = <<"", "", "hello">>
    /\ Len(envLast.offered) = 3
    /\ envData[envLast.name] = "hello"

(* A catalogued name that is not required and that no source holds *)
OptionalWithoutDefault(n) ==
    /\ n \in DOMAIN variables
    /\ ~variables[n].required
    /\ \A s \in ConfirmedSources \cup PromptSources : n \notin DOMAIN envSources[s]

(* C11: for a name that is not required and has no default in any source,  *)
(* the first read prompts exactly once; an empty answer is cached as None, *)
(* not as the empty string, any other answer as it is; a later read        *)
(* returns the cached None without prompting.                              *)
C11_OptionalNoValue ==
    /\ (envLast.op = "get" /\ ~envLast.hit /\ OptionalWithoutDefault(envLast.name)) =>
           IF envLast.e = "ok"
           THEN /\ Len(envLast.offered) = 1
                /\ envLast.v = IF envLast.answers[1] = "" THEN None
                               ELSE envLast.answers[1]
                /\ envLast.v # ""
                /\ envLast.name \in DOMAIN envData
                /\ envData[envLast.name] = envLast.v
           ELSE /\ envLast.e = "Abort"
                /\ envLast.answers = <<>>
                /\ envLast.offered = <<>>
                /\ envLast.name \notin DOMAIN envData
    /\ (envLast.op = "get" /\ envLast.hit) =>
           /\ envLast.offered = <<>>
           /\ envLast.v = envData[envLast.name]

C11_Witness ==
    /\ envLast.op = "get"
    /\ envLast.hit
    /\ envLast.name = Optional
    /\ OptionalWithoutDefault(Optional)
    /\ envLast.v = None
    /\ envData[Optional] = None

(* The last operation rendered a template against the environment. *)
Rendered == envLast.op = "format"

Referenced == FieldNames(Parse(envLast.arg.pat.v))

(* Position in the fetch order of the first referenced variable held falsy *)
FirstFalsy ==
    {i \in 1..Len(envLast.order) :
        /\ envLast.order[i] \in DOMAIN envData
        /\ Falsy(envData[envLast.order[i]])
        /\ \A j \in 1..(i - 1) : /\ envLast.order[j] \in DOMAIN envData
                                 /\ ~Falsy(envData[envLast.order[j]])}

AllNonEmpty ==
    \A n \in Referenced : n \in DOMAIN envData /\ ~Falsy(envData[n])

Substituted ==
    Substitute(Parse(envLast.arg.pat.v),
               [n \in Referenced |-> Sanitize(envLast.arg.san, n, envData[n])],
               1)

AbsentSentinel ==
    /\ (envLast.arg.verr /\ FirstFalsy # {}) =>
           /\ envLast.e = "ok" /\ envLast.v = None
           /\ \A i \in FirstFalsy : \A j \in (i + 1)..Len(envLast.order) :
                  envLast.order[j] \in DOMAIN envData
                      => envLast.order[j] \in DOMAIN envLast.pre
    /\ AllNonEmpty => envLast.e = "ok" /\ envLast.v = Substituted

(* C12: formatting a deferred string returns None as soon as one of the    *)
(* variables it references resolves to None or "" (value_error left on),   *)
(* nothing after it being resolved, and returns the pattern with every     *)
(* placeholder replaced by the sanitized value when all of them are        *)
(* non-empty.                                                              *)
C12_AbsentSentinel == Rendered => AbsentSentinel

(* The same for the templates that carry no keyword override. *)
C12_WithoutOverrides ==
    (Rendered /\ DOMAIN envLast.arg.kw = {}) => AbsentSentinel

C12_SentinelReturned ==
    /\ Rendered /\ DOMAIN envLast.arg.kw = {}
    /\ envLast.arg.verr /\ FirstFalsy # {} /\ envLast.v = None
    /\ Len(envLast.order) = 2 /\ envLast.offered # <<>>

C12_AllSubstituted ==
    /\ Rendered /\ DOMAIN envLast.arg.kw = {} /\ AllNonEmpty
    /\ Len(envLast.order) = 2 /\ envLast.v = Substituted

(* Properties of the resolution visitor *)

VisitedOk == tdLast.op = "visit" /\ tdLast.e = "ok"

IsEmptyContainer(obj) ==
    \/ obj.t = "dict" /\ DOMAIN obj.m = {}
    \/ obj.t = "list" /\ obj.l = <<>>

(* no deferred value, no None and no empty container below obj *)
RECURSIVE Clean(_)
Clean(obj) ==
    CASE obj.t = "str" -> TRUE
      [] obj.t = "dict" ->
            \A k \in DOMAIN obj.m : Clean(obj.m[k]) /\ ~IsEmptyContainer(obj.m[k])
      [] obj.t = "list" ->
            \A i \in DOMAIN obj.l : Clean(obj.l[i]) /\ ~IsEmptyContainer(obj.l[i])
      [] OTHER -> FALSE

(* what a deferred string is worth under the values the environment holds: *)
(* None when a variable has no value or, with value_error, an empty one    *)
Final(st) ==
    LET names == FieldNames(Parse(st.pat.v))
    IN  IF \E n \in names : n \notin DOMAIN envData THEN None
        ELSE IF st.verr /\ \E n \in names : Falsy(envData[n]) THEN None
        ELSE Substitute(Parse(st.pat.v),
                        [n \in names |-> Sanitize(st.san, n, envData[n])], 1)

(* the entry is absent: it resolves to None or to an emptied container *)
RECURSIVE Absent(_)
Absent(obj) ==
    CASE obj.t = "st" -> Final(obj) = None
      [] obj.t = "mst" -> FALSE
      [] obj.t = "dict" -> \A k \in DOMAIN obj.m : Absent(obj.m[k])
      [] obj.t = "list" -> \A i \in DOMAIN obj.l : Absent(obj.l[i])
      [] OTHER -> FALSE

(* post is pre with the absent entries removed and the others resolved *)
RECURSIVE Kept(_, _)
Kept(pre, post) ==
    CASE pre.t = "st" -> post = Str(Final(pre))
      [] pre.t = "mst" ->
            /\ post.t = "str"
            /\ post.v \in {IF c.t = "str" THEN c.v ELSE Final(c) : c \in pre.vals}
                              \ {None}
      [] pre.t = "dict" ->
            /\ post.t = "dict"
            /\ DOMAIN post.m = {k \in DOMAIN pre.m : ~Absent(pre.m[k])}
            /\ \A k \in DOMAIN post.m : Kept(pre.m[k], post.m[k])
      [] pre.t = "list" ->
            LET left == SelectSeq(pre.l, LAMBDA x : ~Absent(x))
            IN  /\ post.t = "list"
                /\ Len(post.l) = Len(left)
                /\ \A i \in DOMAIN left : Kept(left[i], post.l[i])
      [] OTHER -> FALSE

(* C13: after visit(container) the structure holds at no depth a deferred  *)
(* value, a None or an empty nested list or mapping: the entries that      *)
(* resolved to absent are gone, the containers they left empty are gone    *)
(* from their parent, and every other entry holds its resolved value.      *)
C13_VisitPrunes == VisitedOk => Clean(td) /\ Kept(tdLast.pre, td)

C13_Witness ==
    /\ VisitedOk
    /\ \E k \in DOMAIN tdLast.pre.m :
           /\ tdLast.pre.m[k].t \in {"dict", "list"}
           /\ ~IsEmptyContainer(tdLast.pre.m[k])
           /\ k \notin DOMAIN td.m
    /\ DOMAIN td.m # {}

(* The last operation asked for a name the catalog does not hold: by get,  *)
(* or by formatting a deferred string that references it.                  *)
GetUnknown == envLast.op = "get" /\ envLast.name \notin DOMAIN variables

FormatUnknown ==
    /\ Rendered
    /\ \E n \in Referenced : n \notin DOMAIN variables /\ n \notin DOMAIN envLast.pre

UnknownAsked ==
    IF Rendered THEN Referenced \ DOMAIN variables ELSE {envLast.name}

FailedLoudly ==
    /\ envLast.e = "ValueError"
    /\ envLast.offered = <<>>
    /\ UnknownAsked \cap DOMAIN envData = {}

(* C14: get(name), and so the formatting of a deferred string that         *)
(* references name, raises an error when name is not in the catalog: no    *)
(* prompt is issued, nothing is cached and no empty value is substituted.  *)
C14_UnknownFailsLoudly == (GetUnknown \/ FormatUnknown) => FailedLoudly

(* The part of it that is about get alone. *)
C14_GetUnknownRaises == GetUnknown => FailedLoudly

C14_GetUnknownReached == GetUnknown /\ envSources["tool_confirmed"] # <<>>

(* Properties of the iteration over the environ of project.py *)

(* the names the last operation resolved: by a read that returned, by a   *)
(* set with confirmed=True, by the reads of a format                      *)
NewlyResolved ==
    CASE environLast.op = "get" /\ environLast.e = "ok" -> {environLast.key}
      [] /\ environLast.op = "set" /\ environLast.e = "ok"
         /\ environLast.arg.t = "EnvValue" /\ environLast.arg.confirmed ->
             {environLast.key}
      [] environLast.op = "format" ->
             {n \in FieldNames(Parse(environLast.arg.pat.v)) :
                  n \in environResolved \ environLast.pre.resolved}
      [] OTHER -> {}

EnumeratedBefore ==
    IF environLast.op \in {"none", "clear"} THEN {"PYTHON_CMD"}
    ELSE Environ_iter(environLast.pre)

(* C15: iterating the store (keys, values, items, in) yields exactly the   *)
(* names that are resolved: the one clear confirms, those a read returned  *)
(* and those set as confirmed.  A name that is only held, from the         *)
(* process environment or from a set without confirmation, is not listed.  *)
C15_IterationIsResolved ==
    /\ Environ_iter(Store) = EnumeratedBefore \cup NewlyResolved
    /\ \A key \in DOMAIN environData \cup EnvironKeys :
           Environ_contains(Store, key) <=> key \in Environ_iter(Store)
    /\ Environ_iter(Store) \subseteq DOMAIN environData
    /\ Environ_items(Store) = {<<key, environData[key]>> : key \in Environ_iter(Store)}
    /\ Environ_values(Store) = {item[2] : item \in Environ_items(Store)}

C15_Witness ==
    /\ environLast.op = "set" /\ environLast.e = "ok"
    /\ environLast.key \in DOMAIN environData
    /\ environLast.key \notin Environ_iter(Store)
    /\ Environ_iter(Store) \ {"PYTHON_CMD"} # {}

(* Properties of the choices *)

(* the last write stored a choice under its key, and one of the two inputs *)
(* of MultiStringTemplate(value, existing) was a choice itself             *)
ChoiceOfChoice ==
    /\ tdLast.op = "setitem" /\ tdLast.e = "ok"
    /\ tdLast.keys.ks[1] \in DOMAIN tdLast.pre.m
    /\ td.m[tdLast.keys.ks[1]].t = "mst"
    /\ \/ tdLast.value.t = "mst"
       \/ tdLast.pre.m[tdLast.keys.ks[1]].t = "mst"

Flat(choice) == \A c \in choice.vals : c.t # "mst"

InputsFlat ==
    /\ tdLast.value.t = "mst" => Flat(tdLast.value)
    /\ tdLast.pre.m[tdLast.keys.ks[1]].t = "mst"
           => Flat(tdLast.pre.m[tdLast.keys.ks[1]])

(* C16: a choice built from two inputs of which either is a choice itself  *)
(* holds a flat set of candidates: no candidate is a choice.               *)
C16_ChoiceIsFlat ==
    (ChoiceOfChoice /\ InputsFlat) => Flat(td.m[tdLast.keys.ks[1]])

(* The same when only the value already stored (the tail) is a choice. *)
C16_TailIsFlattened ==
    (ChoiceOfChoice /\ InputsFlat /\ tdLast.value.t # "mst")
        => Flat(td.m[tdLast.keys.ks[1]])

C16_TailFlattenedReached ==
    /\ ChoiceOfChoice /\ InputsFlat /\ tdLast.value.t # "mst"
    /\ Cardinality(td.m[tdLast.keys.ks[1]].vals) = 3

(* the menu of a choice made by a write that met another scalar *)
MenuOfConflict ==
    /\ tdLast.op = "menu"
    /\ tdLast.value.t # "mst"
    /\ tdLast.keys.ks[1] \in DOMAIN tdLast.pre.m
    /\ tdLast.pre.m[tdLast.keys.ks[1]].t \in {"st", "str"}
    /\ Stored(tdLast.value) # Wrapped(tdLast.pre.m[tdLast.keys.ks[1]])

(* C17: the menu of a choice lists the candidates in construction order,   *)
(* the value written last first, then the earlier ones.                    *)
C17_MenuInConstructionOrder ==
    MenuOfConflict =>
        tdLast.menu = <<Stored(tdLast.value),
                        Wrapped(tdLast.pre.m[tdLast.keys.ks[1]])>>

(* MultipleValues of utils.py keeps a list: the value written last is put  *)
(* in front of what the key held.                                          *)
C17_StackOrderUtils ==
    (/\ udLast.op = "setitem" /\ udLast.e = "ok" /\ ~udLast.keys.tuple
     /\ udLast.keys.ks[1] \in DOMAIN ud.m
     /\ ud.m[udLast.keys.ks[1]].t = "mv"
     /\ udLast.keys.ks[1] \in DOMAIN udLast.pre.m
     /\ ud # udLast.pre)
        => LET old == udLast.pre.m[udLast.keys.ks[1]]
               now == ud.m[udLast.keys.ks[1]].vals
           IN  Tail(now) = IF old.t = "mv" THEN old.vals ELSE <<old>>

C17_StackOrderUtilsReached ==
    /\ udLast.op = "setitem" /\ udLast.e = "ok" /\ ~udLast.keys.tuple
    /\ udLast.keys.ks[1] \in DOMAIN ud.m
    /\ ud.m[udLast.keys.ks[1]].t = "mv"
    /\ udLast.keys.ks[1] \in DOMAIN udLast.pre.m
    /\ Len(ud.m[udLast.keys.ks[1]].vals) = 2

(* Properties of TemplateDict.update *)

(* value with the constructor f put on every leaf below it that carries no *)
(* Transform of its own                                                    *)
RECURSIVE Deep(_, _)
Deep(value, f) ==
    CASE value.t = "tr" -> Deep(value.v, value.f)
      [] value.t = "mapping" ->
             Mapping([i \in DOMAIN value.items |->
                          Item(value.items[i].k, Deep(value.items[i].v, f))])
      [] value.t = "list" -> List([i \in DOMAIN value.l |-> Deep(value.l[i], f)])
      [] OTHER -> Transform(value, f)

(* proxy[k] = m[k] for each key of m in order *)
RECURSIVE PerKey(_, _, _, _)
PerKey(data, items, f, i) ==
    IF i > Len(items) THEN Ok(data)
    ELSE LET r == TD_setitem(data, [tuple |-> FALSE, ks |-> <<items[i].k>>],
                             Deep(items[i].v, f))
         IN  IF r.e # "ok" THEN r ELSE PerKey(r.d, items, f, i + 1)

(* nothing post holds less than pre: a scalar is still there, alone or as  *)
(* a candidate, a list still has its elements in their order, a dict its   *)
(* keys                                                                    *)
RECURSIVE Merged(_, _)
Merged(pre, post) ==
    CASE pre.t = "dict" ->
             /\ post.t = "dict"
             /\ DOMAIN pre.m \subseteq DOMAIN post.m
             /\ \A k \in DOMAIN pre.m : Merged(pre.m[k], post.m[k])
      [] pre.t = "list" ->
             /\ post.t = "list"
             /\ Len(post.l) >= Len(pre.l)
             /\ SubSeq(post.l, 1, Len(pre.l)) = pre.l
      [] pre.t = "mst" -> post.t = "mst" /\ pre.vals \subseteq post.vals
      [] OTHER -> post = pre \/ (post.t = "mst" /\ Wrapped(pre) \in post.vals)

UpdatedWith ==
    tdLast.op = "update"

C19_ProxiesShareBacking ==
    /\ \A p \in DOMAIN proxies :
           \E i \in Registered(configurations, proxies[p].path) :
               configurations[i].obj = proxies[p].obj
    /\ \A p, q \in DOMAIN proxies :
           proxies[p].path = proxies[q].path => proxies[p].obj = proxies[q].obj
    /\ (stLast.op = "get_config"
        /\ Registered(stLast.pre.confs, stLast.path) # {}) =>
           /\ configurations = stLast.pre.confs
           /\ heap = stLast.pre.heap

C19_Witness ==
    /\ stLast.op = "get_config" /\ stLast.e = "ok"
    /\ Registered(stLast.pre.confs, stLast.path) # {}
    /\ ~IsEmptyContainer(heap[stLast.obj])
    /\ Len(proxies) >= 2

(* C20: commit resolves every registered artifact before it serializes     *)
(* any: when resolving one of them raises nothing has been written, and    *)
(* otherwise every artifact is written as it stands resolved.              *)
C20_ResolveAllThenWrite ==
    stLast.op = "commit" =>
        /\ stLast.e # "ok" => dumped = stLast.pre.dumped
        /\ stLast.e = "ok" =>
               /\ dumped = stLast.pre.dumped \o DumpAll(heap, configurations, 1)
               /\ \A i \in DOMAIN configurations :
                      Clean(heap[configurations[i].obj])

C20_Witness ==
    /\ stLast.op = "commit" /\ stLast.e # "ok"
    /\ stLast.resolved >= 1
    /\ ~IsEmptyContainer(stLast.pre.heap[configurations[1].obj])


(* Properties of a second submission to the visitor *)

(* this step is a visit of the artifact an earlier visit resolved, with    *)
(* no write in between                                                     *)
Resubmitted ==
    /\ VisitedOk
    /\ nWrites' = nWrites + 1
    /\ tdLast'.op = "visit"

(* C21: submitting to the visitor an artifact that has already gone        *)
(* through resolution raises an error, whatever the artifact, also when    *)
(* its resolution left it empty.                                           *)
C21_ResubmitRaises == [][Resubmitted => tdLast'.e # "ok"]_vars

(* The part of it that is about the artifacts resolution left an entry in: *)
(* the error is an AssertionError raised at the first leaf, before any     *)
(* prompt and with the artifact as it was.                                 *)
C21_NonEmptyResubmitRaises ==
    [][Resubmitted /\ DOMAIN td.m # {} =>
           /\ tdLast'.e = "AssertionError"
           /\ td' = td
           /\ envData' = envData]_vars

(* two visits and no write: the second one met the resolved artifact *)
C21_NonEmptyResubmitReached ==
    /\ tdLast.op = "visit" /\ tdLast.e = "AssertionError"
    /\ DOMAIN tdLast.pre.m # {} /\ Clean(tdLast.pre)
    /\ nWrites = 2 /\ \A k \in Keys : written[k] = {}
    /\ envData # <<>>


(* Properties of the registries of variables *)

(* the last operation registered a name its registry already held *)
ReRegistered ==
    /\ catLast.op \in {"_EnvMetadata", "Variable"}
    /\ catLast.name \in DOMAIN catLast.pre

RegistryOf(op) == IF op = "Variable" THEN catalog ELSE metadata

(* C22: registering a variable under a name that is already registered     *)
(* raises an error and leaves the existing entry as it was.                *)
C22_ReRegisterRaises ==
    ReRegistered =>
        /\ catLast.e = "ValueError"
        /\ RegistryOf(catLast.op) = catLast.pre

(* The part of it that is about _EnvMetadata. *)
C22_EnvMetadataReRegisterRaises ==
    ReRegistered /\ catLast.op = "_EnvMetadata" =>
        /\ catLast.e = "ValueError"
        /\ metadata = catLast.pre

C22_EnvMetadataReRegisterReached ==
    /\ ReRegistered /\ catLast.op = "_EnvMetadata"
    /\ catLast.name = "PYENV_ROOT"


(* Properties of the menu of a choice *)

ChoiceFormatted == tdLast.op = "format" /\ tdLast.e = "ok"

(* C23: when two or more candidates of a choice resolve to the same final  *)
(* string, that string appears only once among the options shown.          *)
C23_MenuWithoutDuplicates ==
    ChoiceFormatted =>
        \A i, j \in DOMAIN tdLast.menu :
            tdLast.menu[i] = tdLast.menu[j] => i = j

(* What the code does: one option per candidate, in the order the set of   *)
(* candidates is iterated, also when two of them resolved alike.           *)
C23_OneOptionPerCandidate ==
    ChoiceFormatted =>
        /\ Len(tdLast.menu) = Cardinality(tdLast.value.vals)
        /\ \E i \in DOMAIN tdLast.menu : tdLast.menu[i] = tdLast.v

C23_SameStringReached ==
    /\ ChoiceFormatted
    /\ \E i, j \in DOMAIN tdLast.menu :
           i # j /\ tdLast.menu[i] = tdLast.menu[j]


(* Properties of the override sources *)

(* the first source of order that holds the name n *)
FirstHolding(order, n) ==
    LET I == {i \in DOMAIN order : n \in DOMAIN envSources[order[i]]}
    IN  order[CHOOSE i \in I : \A j \in I : i <= j]

(* The first read of a name that an override source other than the CLI     *)
(* holds, and the CLI does not.                                            *)
OverrideGet ==
    /\ FirstGet
    /\ envLast.name \notin DOMAIN envSources["cli"]
    /\ \E s \in ConfirmedSources : envLast.name \in DOMAIN envSources[s]

TakenFrom(order) ==
    LET s == FirstHolding(order, envLast.name)
    IN  /\ envLast.source = s
        /\ envLast.v = envSources[s][envLast.name]
        /\ envLast.offered = <<>>

C24_InjectOverDefaultReached ==
    /\ OverrideGet
    /\ envLast.name \in DOMAIN envSources["default_confirmed"]
    /\ envLast.source = "tool_confirmed"
    /\ envLast.v = "w"


(* Properties of the resolutions one commit makes *)

RECURSIVE Concat(_, _)
Concat(seqs, i) == IF i > Len(seqs) THEN <<>> ELSE seqs[i] \o Concat(seqs, i + 1)

(* the deferred values and choices below obj, depth first, the keys of a   *)
(* dict in the order keys                                                  *)
RECURSIVE Leaves(_, _)
Leaves(obj, keys) ==
    CASE Formattable(obj) -> <<obj>>
      [] obj.t = "list" ->
            Concat([i \in DOMAIN obj.l |-> Leaves(obj.l[i], keys)], 1)
      [] obj.t = "dict" ->
            LET ks == SelectSeq(keys, LAMBDA k : k \in DOMAIN obj.m)
            IN  Concat([i \in DOMAIN ks |-> Leaves(obj.m[ks[i]], keys)], 1)
      [] OTHER -> <<>>

(* those of every registered artifact, in registration order *)
AllLeaves(heap_, confs) ==
    Concat([i \in DOMAIN confs |-> Leaves(heap_[confs[i].obj], CommitRank.keys)], 1)

(* the names a deferred value or choice references *)
NamesOf(leaf) ==
    IF leaf.t = "st" THEN FieldNames(Parse(leaf.pat.v))
    ELSE UNION {FieldNames(Parse(IF c.t = "st" THEN c.pat.v ELSE c.v)) :
                c \in leaf.vals}

IsPrefix(a, b) == Len(a) <= Len(b) /\ a = SubSeq(b, 1, Len(a))

(* the prompts of the last commit that asked for a variable: a menu is     *)
(* recorded as None                                                        *)
VariablePrompts == {i \in DOMAIN stLast.offered : stLast.offered[i] # None}

(* the catalogued names the artifacts referenced that had no value yet *)
Unresolved ==
    LET leaves == AllLeaves(stLast.pre.heap, stLast.pre.confs)
    IN  ((UNION {NamesOf(leaves[i]) : i \in DOMAIN leaves}) \cap DOMAIN variables)
            \ DOMAIN stLast.env

(* C25: one commit calls format once on each deferred value or choice of   *)
(* each artifact, in one depth-first traversal (up to the one that raises, *)
(* if one does), and asks the user at most once for a variable, however    *)
(* many deferred values of however many artifacts reference it.            *)
C25_ResolvedOncePerCommit ==
    stLast.op = "commit" =>
        /\ IsPrefix(stLast.formats, AllLeaves(stLast.pre.heap, stLast.pre.confs))
        /\ stLast.e = "ok" =>
               stLast.formats = AllLeaves(stLast.pre.heap, stLast.pre.confs)
        /\ Cardinality(VariablePrompts) <= Cardinality(Unresolved)

C25_Witness ==
    /\ stLast.op = "commit" /\ stLast.e = "ok"
    /\ Len(stLast.pre.confs) = 2
    /\ \A i \in DOMAIN stLast.formats : "AUTHOR_NAME" \in NamesOf(stLast.formats[i])
    /\ Len(stLast.formats) = 2
    /\ Cardinality(VariablePrompts) = 1


(* Properties of inject *)

(* The first read of a name that inject gave a value to, and neither the   *)
(* CLI nor the INCIPYT_ mirror did.                                        *)
InjectedGet ==
    /\ envLast.op = "get"
    /\ ~envLast.hit
    /\ envLast.name \in DOMAIN envSources["tool_confirmed"]
    /\ envLast.name \notin DOMAIN envSources["cli"]
    /\ envLast.name \notin DOMAIN envSources["osenviron_confirmed"]

InjectedReturned ==
    /\ envLast.e = "ok"
    /\ envLast.v = envSources["tool_confirmed"][envLast.name]
    /\ envLast.offered = <<>>
    /\ envData[envLast.name] = envLast.v

(* C26: after inject(name, value) on a name that is not resolved and has   *)
(* no CLI or INCIPYT_ value, get(name) returns the injected value without  *)
(* a prompt, for any name a tool injects, PYENV_ROOT included.             *)
C26_InjectedIsReturned == InjectedGet => InjectedReturned

(* The part of it that is about the names of the catalog. *)
C26_InjectedCataloguedIsReturned ==
    InjectedGet /\ envLast.name \in DOMAIN variables => InjectedReturned

C26_InjectedCataloguedReached ==
    /\ InjectedGet /\ envLast.name = Optional
    /\ envLast.answers # <<>>

(* what happens to the name the catalog does not hold *)
C26_InjectedUnknownRaises ==
    InjectedGet /\ envLast.name \notin DOMAIN variables =>
        /\ envLast.e = "ValueError"
        /\ envLast.name \notin DOMAIN envData


(* Properties of a format with keyword overrides that is made again *)

(* the last operation formatted a template each of whose overrides the     *)
(* environment already held as an earlier format with them had stored it   *)
OverrideRepeated ==
    /\ Rendered
    /\ DOMAIN envLast.arg.kw # {}
    /\ \A K \in DOMAIN envLast.arg.kw :
           /\ K \in Referenced
           /\ K \in DOMAIN envLast.pre
           /\ envLast.pre[K] =
                  ObjectOf(EnvValue(envLast.arg.kw[K], envLast.arg.conf, FALSE))

(* C27: formatting with keyword overrides is repeatable: once a template   *)
(* with the override K=v has been formatted, formatting it or another      *)
(* template that overrides K succeeds and renders K with the value the     *)
(* environment holds for it.                                               *)
C27_OverrideRepeatable ==
    OverrideRepeated => envLast.e = "ok" /\ envLast.v = Substituted

(* What the code does: the second push of the override raises, nothing is  *)
(* asked and the environment stays as it was.                              *)
C27_RepeatedOverrideRaises ==
    OverrideRepeated =>
        /\ envLast.e = "ValueError"
        /\ envLast.offered = <<>>
        /\ envData = envLast.pre

C27_RepeatedOverrideReached == OverrideRepeated /\ envLast.answers # <<>>

(* The same against the _Environ of project.py: an override of a name the  *)
(* store holds raises unless it is an update.                              *)
C27_RepeatedOverrideRaisesEnviron ==
    (/\ environLast.op = "format"
     /\ \E K \in DOMAIN environLast.arg.kw :
            /\ K \in FieldNames(Parse(environLast.arg.pat.v))
            /\ K \in DOMAIN environLast.pre.data) =>
        /\ environLast.e = "ValueError"
        /\ environData = environLast.pre.data


(* Properties of a sanitizer that raises *)

(* the names template refers to whose value held in data reaches the       *)
(* sanitizer and is rejected with ValueError                               *)
RejectedNames(template, data) ==
    {n \in FieldNames(Parse(template.pat.v)) :
        /\ n \in DOMAIN data
        /\ ~(template.verr /\ Falsy(data[n]))
        /\ SanitizeError(template.san, n, data[n]) = "ValueError"}

(* the entries of the artifact obj that are deferred strings with a        *)
(* rejected value                                                          *)
RejectedEntries(obj, data) ==
    {k \in DOMAIN obj.m :
        /\ obj.m[k].t = "st"
        /\ RejectedNames(obj.m[k], data) # {}}

(* this step is a format that returned or raised *)
FormatStep == nGets' # nGets /\ envLast'.op = "format"

(* this step is a visit that returned *)
VisitStep == nWrites' # nWrites /\ tdLast'.op = "visit" /\ tdLast'.e = "ok"

(* C28: when the sanitizer of a deferred string raises ValueError on a     *)
(* fetched value, format does not propagate the error: it returns None as  *)
(* it does for an empty variable, whatever value_error is, and the        *)
(* visitor prunes the key without a word.                                  *)
C28_SanitizerErrorIsAbsent ==
    [][/\ FormatStep /\ RejectedNames(envLast'.arg, envData') # {}
          => envLast'.e = "ok" /\ envLast'.v = None
       /\ VisitStep => RejectedEntries(td, envData') \cap DOMAIN td'.m = {}]_vars

C28_Witness ==
    /\ Rendered
    /\ envLast.e = "ok" /\ envLast.v = None
    /\ ~envLast.arg.verr
    /\ envLast.pre = <<>> /\ envLast.offered # <<>>
    /\ RejectedNames(envLast.arg, envData) = {"PACKAGE_VERSION"}

C28_PrunedReached ==
    /\ VisitedOk
    /\ RejectedEntries(tdLast.pre, envData) # {}
    /\ DOMAIN td.m # {}
    /\ tdLast.formats # <<>>


(* Properties of an assignment that fails on a type mismatch *)

(* the last assignment found a sequence where it writes a mapping, or a    *)
(* mapping where it writes a sequence                                      *)
MismatchRaised == tdLast.op = "setitem" /\ tdLast.e = "AssertionError"

(* C29: a TemplateDict assignment that raises the mapping/sequence         *)
(* mismatch error leaves the structure as it was before the assignment: no *)
(* intermediate mapping of the key path was created and no sibling key of  *)
(* the written mapping was stored or merged.                               *)
C29_MismatchLeavesStructure == MismatchRaised => td = tdLast.pre

(* what holds: a failed assignment keeps what it wrote before it failed,   *)
(* and what it wrote is only added to the structure: every top-level key   *)
(* there before is still there.                                            *)
C29_MismatchKeepsPartialWrites ==
    MismatchRaised => DOMAIN tdLast.pre.m \subseteq DOMAIN td.m

C29_PartialWriteReached ==
    /\ MismatchRaised
    /\ tdLast.value \in SiblingArgs
    /\ td # tdLast.pre
    /\ "a" \in DOMAIN tdLast.pre.m /\ tdLast.pre.m["a"].t = "dict"
    /\ "b" \in DOMAIN td.m["a"].m /\ "b" \notin DOMAIN tdLast.pre.m["a"].m

C29_NoWriteReached == MismatchRaised /\ td = tdLast.pre


(* Properties of the confirmed set of _Environ *)

(* every confirmed name has a value in the store, PYTHON_CMD is confirmed *)
ConfirmedHeld ==
    /\ environConfirmed \subseteq DOMAIN environData
    /\ "PYTHON_CMD" \in environConfirmed

(* C30: in _Environ, after any sequence of get, set (update and confirmed  *)
(* in any combination) and clear, every confirmed name has a value in the  *)
(* store and PYTHON_CMD is confirmed; no operation other than clear        *)
(* removes a name from the confirmed set.                                  *)
C30_ConfirmedHeldAndGrowing ==
    [][/\ ConfirmedHeld
       /\ ConfirmedHeld'
       /\ environLast'.op # "clear" => environConfirmed \subseteq environConfirmed']_vars

(* a set has confirmed one name after a get confirmed another, and a       *)
(* prompt was aborted on the way                                           *)
C30_Witness ==
    /\ nEnvironOps = MaxEnvironOps
    /\ environLast.op = "set" /\ environLast.e = "ok"
    /\ environLast.arg.t = "EnvValue" /\ environLast.arg.confirmed
    /\ environLast.key \notin environLast.pre.confirmed
    /\ environConfirmed = {"A", "B", "PYTHON_CMD"}
    /\ ConfirmedHeld

C30_AbortedGetReached ==
    /\ environLast.op = "get" /\ environLast.e = "Abort"
    /\ environLast.key \notin environConfirmed
    /\ environLast.key \notin DOMAIN environData

====
